---- MODULE Spec2Model ----
(***************************************************************************)
(* Voice-command shopping assistant (backend/): the rule-based command     *)
(* parser of backend/nlp/ and the request handlers of backend/main.py.     *)
(*                                                                         *)
(* Text is a TLA+ string; a character is a string of length one.  The      *)
(* regular expressions of the source are written out as searches over the  *)
(* characters of the text, with Python's meaning of \b, \s, \w and \d on   *)
(* the alphabet below (ASCII and the twelve accented Spanish letters).     *)
(***************************************************************************)
EXTENDS Integers, Sequences, FiniteSets, TLC

VARIABLES
    items,      \* table shopping_items: sequence of rows ordered by id
    history,    \* table user_history: set of rows, item_name unique
    req,        \* the call or request in hand: its operation and arguments
    resp,       \* what the call returned (NoResp while it has not run)
    served      \* number of calls handled so far

vars == <<items, history, req, resp, served>>

--------------------------------------------------------------------------
(* Characters and Python's str methods                                     *)

Ch(t, i) == SubSeq(t, i, i)

CharsOf(s) == {Ch(s, i) : i \in 1..Len(s)}

AsciiLower == "abcdefghijklmnopqrstuvwxyz"
AsciiUpper == "ABCDEFGHIJKLMNOPQRSTUVWXYZ"
AccentLower == "áéíóúñ"
AccentUpper == "ÁÉÍÓÚÑ"
AllLower == AsciiLower \o AccentLower
AllUpper == AsciiUpper \o AccentUpper

DigitChars == CharsOf("0123456789")
LetterChars == CharsOf(AllLower) \cup CharsOf(AllUpper)
\* \w of a Python 3 str pattern: letters (accented ones too), digits, underscore
WordChars == LetterChars \cup DigitChars \cup {"_"}
\* \s ; "." of a pattern matches every character but the newline
SpaceChars == {" ", "\t", "\n"}

IsDigit(c) == c \in DigitChars
IsWordCh(c) == c \in WordChars
IsSpace(c) == c \in SpaceChars

\* str.lower() on one character
LowerOf == [c \in CharsOf(AllUpper) |->
               Ch(AllLower, CHOOSE i \in 1..Len(AllUpper) : Ch(AllUpper, i) = c)]
LowerCh(c) == IF c \in DOMAIN LowerOf THEN LowerOf[c] ELSE c

RECURSIVE lower(_)
lower(t) == IF t = "" THEN "" ELSE LowerCh(Head(t)) \o lower(Tail(t))

RECURSIVE lstrip(_)
lstrip(t) == IF t # "" /\ IsSpace(Head(t)) THEN lstrip(Tail(t)) ELSE t

RECURSIVE rstrip(_)
rstrip(t) ==
    IF t # "" /\ IsSpace(Ch(t, Len(t))) THEN rstrip(SubSeq(t, 1, Len(t) - 1)) ELSE t

strip(t) == rstrip(lstrip(t))

\* str.startswith
startswith(t, p) == Len(p) <= Len(t) /\ SubSeq(t, 1, Len(p)) = p

\* the literal w stands in t at position i
LitAt(t, i, w) == i >= 1 /\ i + Len(w) - 1 <= Len(t) /\ SubSeq(t, i, i + Len(w) - 1) = w

\* Python's  w in t
Contains(t, w) == \E i \in 1..(Len(t) + 1) : LitAt(t, i, w)

\* \b at the gap in front of position i, for i in 1..Len(t)+1
WordBoundary(t, i) ==
    LET before == i > 1 /\ i - 1 <= Len(t) /\ IsWordCh(Ch(t, i - 1))
        after == i >= 1 /\ i <= Len(t) /\ IsWordCh(Ch(t, i))
    IN  before # after

\* \b<w>\b matches at position i (w escaped: a literal)
WordAt(t, i, w) == WordBoundary(t, i) /\ LitAt(t, i, w) /\ WordBoundary(t, i + Len(w))

\* re.search(r"\b" + re.escape(w) + r"\b", t)
SearchWord(t, w) == \E i \in 1..Len(t) : WordAt(t, i, w)

\* re.sub(r"\b" + re.escape(w) + r"\b", " ", t): every match, left to right
RECURSIVE SubWordFrom(_, _, _)
SubWordFrom(t, w, i) ==
    IF i > Len(t) THEN ""
    ELSE IF WordAt(t, i, w) THEN " " \o SubWordFrom(t, w, i + Len(w))
    ELSE Ch(t, i) \o SubWordFrom(t, w, i + 1)

SubWord(t, w) == SubWordFrom(t, w, 1)

\* re.sub(r"\s+", " ", t)
RECURSIVE CollapseSpaces(_)
CollapseSpaces(t) ==
    IF t = "" THEN ""
    ELSE IF IsSpace(Head(t)) THEN " " \o CollapseSpaces(lstrip(t))
    ELSE Head(t) \o CollapseSpaces(Tail(t))

\* index of the last character of the run of digits that starts at i
RECURSIVE DigitRunEnd(_, _)
DigitRunEnd(t, i) ==
    IF i + 1 <= Len(t) /\ IsDigit(Ch(t, i + 1)) THEN DigitRunEnd(t, i + 1) ELSE i

\* \b\d+\b matches at i: the greedy run must end on a word boundary
DigitTokenAt(t, i) ==
    /\ i <= Len(t)
    /\ IsDigit(Ch(t, i))
    /\ WordBoundary(t, i)
    /\ WordBoundary(t, DigitRunEnd(t, i) + 1)

DigitValue(c) == CHOOSE d \in 0..9 : Ch("0123456789", d + 1) = c

\* int(s) of a string of decimal digits
RECURSIVE int(_)
int(s) == IF s = "" THEN 0 ELSE 10 * int(SubSeq(s, 1, Len(s) - 1)) + DigitValue(Ch(s, Len(s)))

Range(s) == {s[i] : i \in 1..Len(s)}

Max(a, b) == IF a >= b THEN a ELSE b

--------------------------------------------------------------------------
(* nlp/language.py                                                         *)

\* Optional[str]: None, or a string
None_ == [some |-> FALSE, val |-> ""]
Some(s) == [some |-> TRUE, val |-> s]

SPANISH_DIACRITICS == {"á", "é", "í", "ó", "ú", "ñ"}

SPANISH_KEYWORDS ==
    {"necesito", "agrega", "añade", "anade", "busca", "quita", "borra", "elimina"}

\* detect_language comparing the hint as given, without hint.lower()
detect_language_hint_case(text, hint) ==
    LET t == lower(text)
        byText ==
            IF \E ch \in SPANISH_DIACRITICS : Contains(t, ch) THEN "es"
            ELSE IF \E w \in SPANISH_KEYWORDS : SearchWord(t, w) THEN "es"
            ELSE "en"
    IN  IF hint.some /\ hint.val # ""
        THEN IF startswith(hint.val, "es") THEN "es"
             ELSE IF startswith(hint.val, "en") THEN "en"
             ELSE byText
        ELSE byText

detect_language(text, hint) ==
    LET t == lower(text)
        byText ==
            IF \E ch \in SPANISH_DIACRITICS : Contains(t, ch) THEN "es"
            ELSE IF \E w \in SPANISH_KEYWORDS : SearchWord(t, w) THEN "es"
            ELSE "en"
    IN  IF hint.some /\ hint.val # ""
        THEN IF startswith(lower(hint.val), "es") THEN "es"
             ELSE IF startswith(lower(hint.val), "en") THEN "en"
             ELSE byText
        ELSE byText

--------------------------------------------------------------------------
(* nlp/intent.py                                                           *)

LEXICON_EN ==
    [add |-> <<"add", "need", "buy", "get", "grab", "pick up">>,
     remove |-> <<"remove", "delete", "drop", "take off", "clear">>,
     modify |-> <<"change", "modify", "update", "set">>,
     search |-> <<"search", "find", "look for", "show">>]

LEXICON_ES ==
    [add |-> <<"agrega", "añade", "anade", "necesito", "compra", "comprar", "quiero">>,
     remove |-> <<"elimina", "borra", "quita", "remueve">>,
     modify |-> <<"cambia", "modifica", "actualiza", "pon", "establece", "ajusta">>,
     search |-> <<"busca", "encuentra", "buscar", "muestra">>]

_has_any(text, words) == \E w \in Range(words) : SearchWord(text, w)

\* first position after the white space that starts at i (i itself when none)
RECURSIVE SkipSpaces(_, _)
SkipSpaces(t, i) == IF i <= Len(t) /\ IsSpace(Ch(t, i)) THEN SkipSpaces(t, i + 1) ELSE i

\* \s+<w>\b matches at i
SpacesThenWord(t, i, w) ==
    LET j == SkipSpaces(t, i)
    IN  j > i /\ LitAt(t, j, w) /\ WordBoundary(t, j + Len(w))

_is_negated_add(text, language) ==
    IF language = "es"
    THEN \* \bno\s+agregues?\b
         \E i \in 1..Len(text) :
            /\ WordBoundary(text, i)
            /\ LitAt(text, i, "no")
            /\ \/ SpacesThenWord(text, i + 2, "agregues")
               \/ SpacesThenWord(text, i + 2, "agregue")
    ELSE \* \b(do\s*not|don't|dont)\s+add\b
         \E i \in 1..Len(text) :
            /\ WordBoundary(text, i)
            /\ \/ /\ LitAt(text, i, "do")
                  /\ LitAt(text, SkipSpaces(text, i + 2), "not")
                  /\ SpacesThenWord(text, SkipSpaces(text, i + 2) + 3, "add")
               \/ /\ LitAt(text, i, "don't")
                  /\ SpacesThenWord(text, i + 5, "add")
               \/ /\ LitAt(text, i, "dont")
                  /\ SpacesThenWord(text, i + 4, "add")

stop_phrases == <<"how", "why", "what", "make", "recipe">>

QUANTITY_NOUN_WORDS ==
    <<"one", "two", "three", "four", "five", "six", "seven", "eight", "nine", "ten">>

\* \b(one|two|...|ten|\d+)\b\s+\w+
quantity_noun_pattern(t) ==
    \E i \in 1..Len(t) :
        \/ \E w \in Range(QUANTITY_NOUN_WORDS) :
              /\ WordAt(t, i, w)
              /\ SkipSpaces(t, i + Len(w)) > i + Len(w)
              /\ SkipSpaces(t, i + Len(w)) <= Len(t)
              /\ IsWordCh(Ch(t, SkipSpaces(t, i + Len(w))))
        \/ /\ DigitTokenAt(t, i)
           /\ SkipSpaces(t, DigitRunEnd(t, i) + 1) > DigitRunEnd(t, i) + 1
           /\ SkipSpaces(t, DigitRunEnd(t, i) + 1) <= Len(t)
           /\ IsWordCh(Ch(t, SkipSpaces(t, DigitRunEnd(t, i) + 1)))

\* detect_intent looking for the stop phrases as whole words only
detect_intent_stop_words(text, language) ==
    LET t == strip(lower(text))
        lex == IF language = "es" THEN LEXICON_ES ELSE LEXICON_EN
    IN  IF \E phrase \in Range(stop_phrases) : SearchWord(t, phrase) THEN "invalid"
        ELSE IF _is_negated_add(t, language) THEN "search"
        ELSE IF _has_any(t, lex.search) THEN "search"
        ELSE IF _has_any(t, lex.remove) THEN "remove"
        ELSE IF _has_any(t, lex.modify) THEN "modify"
        ELSE IF _has_any(t, lex.add) \/ quantity_noun_pattern(t) THEN "add"
        ELSE "invalid"

\* detect_intent trying the remove triggers before the search triggers
detect_intent_remove_first(text, language) ==
    LET t == strip(lower(text))
        lex == IF language = "es" THEN LEXICON_ES ELSE LEXICON_EN
    IN  IF \E phrase \in Range(stop_phrases) : Contains(t, phrase) THEN "invalid"
        ELSE IF _is_negated_add(t, language) THEN "search"
        ELSE IF _has_any(t, lex.remove) THEN "remove"
        ELSE IF _has_any(t, lex.search) THEN "search"
        ELSE IF _has_any(t, lex.modify) THEN "modify"
        ELSE IF _has_any(t, lex.add) \/ quantity_noun_pattern(t) THEN "add"
        ELSE "invalid"

\* detect_intent without the negation test
detect_intent_no_negation(text, language) ==
    LET t == strip(lower(text))
        lex == IF language = "es" THEN LEXICON_ES ELSE LEXICON_EN
    IN  IF \E phrase \in Range(stop_phrases) : Contains(t, phrase) THEN "invalid"
        ELSE IF _has_any(t, lex.search) THEN "search"
        ELSE IF _has_any(t, lex.remove) THEN "remove"
        ELSE IF _has_any(t, lex.modify) THEN "modify"
        ELSE IF _has_any(t, lex.add) \/ quantity_noun_pattern(t) THEN "add"
        ELSE "invalid"

\* detect_intent that takes a text it does not recognize for an add
detect_intent_default_add(text, language) ==
    LET t == strip(lower(text))
        lex == IF language = "es" THEN LEXICON_ES ELSE LEXICON_EN
    IN  IF \E phrase \in Range(stop_phrases) : Contains(t, phrase) THEN "invalid"
        ELSE IF _is_negated_add(t, language) THEN "search"
        ELSE IF _has_any(t, lex.search) THEN "search"
        ELSE IF _has_any(t, lex.remove) THEN "remove"
        ELSE IF _has_any(t, lex.modify) THEN "modify"
        ELSE "add"

detect_intent(text, language) ==
    LET t == strip(lower(text))
        lex == IF language = "es" THEN LEXICON_ES ELSE LEXICON_EN
    IN  IF \E phrase \in Range(stop_phrases) : Contains(t, phrase) THEN "invalid"
        ELSE IF _is_negated_add(t, language) THEN "search"
        ELSE IF _has_any(t, lex.search) THEN "search"
        ELSE IF _has_any(t, lex.remove) THEN "remove"
        ELSE IF _has_any(t, lex.modify) THEN "modify"
        ELSE IF _has_any(t, lex.add) \/ quantity_noun_pattern(t) THEN "add"
        ELSE "invalid"

--------------------------------------------------------------------------
(* nlp/quantity.py                                                         *)

NUMBER_WORDS_EN ==
    <<[w |-> "one", v |-> 1], [w |-> "two", v |-> 2], [w |-> "three", v |-> 3],
      [w |-> "four", v |-> 4], [w |-> "five", v |-> 5], [w |-> "six", v |-> 6],
      [w |-> "seven", v |-> 7], [w |-> "eight", v |-> 8], [w |-> "nine", v |-> 9],
      [w |-> "ten", v |-> 10]>>

NUMBER_WORDS_ES ==
    <<[w |-> "uno", v |-> 1], [w |-> "una", v |-> 1], [w |-> "dos", v |-> 2],
      [w |-> "tres", v |-> 3], [w |-> "cuatro", v |-> 4], [w |-> "cinco", v |-> 5],
      [w |-> "seis", v |-> 6], [w |-> "siete", v |-> 7], [w |-> "ocho", v |-> 8],
      [w |-> "nueve", v |-> 9], [w |-> "diez", v |-> 10]>>

\* re.search(r"\b(\d+)\b", t): the matched digits, "" when there is no match
RECURSIVE FirstDigitTokenFrom(_, _)
FirstDigitTokenFrom(t, i) ==
    IF i > Len(t) THEN ""
    ELSE IF DigitTokenAt(t, i) THEN SubSeq(t, i, DigitRunEnd(t, i))
    ELSE FirstDigitTokenFrom(t, i + 1)

FirstDigitToken(t) == FirstDigitTokenFrom(t, 1)

\* the loop over words.items(): entries i.. of the table, the first one found wins
RECURSIVE NumberWordLoop(_, _, _, _)
NumberWordLoop(words, i, quantity, cleaned_text) ==
    IF i > Len(words) THEN [quantity |-> quantity, cleaned_text |-> cleaned_text]
    ELSE IF SearchWord(cleaned_text, words[i].w)
    THEN [quantity |-> words[i].v, cleaned_text |-> SubWord(cleaned_text, words[i].w)]
    ELSE NumberWordLoop(words, i + 1, quantity, cleaned_text)

\* extract_quantity with a digit that is not overridden by a number word
extract_quantity_digit_wins(text, language) ==
    LET t == lower(text)
        m == FirstDigitToken(t)
        digitHit == m # "" /\ int(m) > 0
        q1 == IF digitHit THEN int(m) ELSE 1
        c1 == IF digitHit THEN SubWord(t, m) ELSE t
        words == IF language = "es" THEN NUMBER_WORDS_ES ELSE NUMBER_WORDS_EN
        r == NumberWordLoop(words, 1, q1, c1)
    IN  [quantity |-> IF digitHit THEN q1 ELSE r.quantity,
         cleaned_text |-> strip(CollapseSpaces(r.cleaned_text))]

\* extract_quantity with the number word read but left in the text
extract_quantity_keep_word(text, language) ==
    LET t == lower(text)
        m == FirstDigitToken(t)
        digitHit == m # "" /\ int(m) > 0
        q1 == IF digitHit THEN int(m) ELSE 1
        c1 == IF digitHit THEN SubWord(t, m) ELSE t
        words == IF language = "es" THEN NUMBER_WORDS_ES ELSE NUMBER_WORDS_EN
        r == NumberWordLoop(words, 1, q1, c1)
    IN  [quantity |-> r.quantity, cleaned_text |-> strip(CollapseSpaces(c1))]

extract_quantity(text, language) ==
    LET t == lower(text)
        m == FirstDigitToken(t)
        digitHit == m # "" /\ int(m) > 0
        q1 == IF digitHit THEN int(m) ELSE 1
        c1 == IF digitHit THEN SubWord(t, m) ELSE t
        words == IF language = "es" THEN NUMBER_WORDS_ES ELSE NUMBER_WORDS_EN
        r == NumberWordLoop(words, 1, q1, c1)
    IN  [quantity |-> r.quantity, cleaned_text |-> strip(CollapseSpaces(r.cleaned_text))]

--------------------------------------------------------------------------
(* nlp/filters.py                                                          *)

\* a float, held as a whole number of hundredths (the texts of this model
\* carry at most two decimals)
float_(whole, frac) ==
    LET f2 == IF Len(frac) >= 2 THEN SubSeq(frac, 1, 2) ELSE frac \o SubSeq("00", 1, 2 - Len(frac))
    IN  int(whole) * 100 + int(f2)

PRICE_TRIGGERS_EN == <<"under", "below", "less than", "cheaper than", "<=">>
PRICE_TRIGGERS_ES == <<"menor que", "bajo", "menos de", "por debajo de", "hasta", "<=">>

\* .*?(\d  from position j on: the first digit before any newline, 0 when none
RECURSIVE FirstDigitOnLine(_, _)
FirstDigitOnLine(t, j) ==
    IF j > Len(t) \/ Ch(t, j) = "\n" THEN 0
    ELSE IF IsDigit(Ch(t, j)) THEN j
    ELSE FirstDigitOnLine(t, j + 1)

\* (\d+(?:\.\d+)?) at position j, as float(): greedy digits, then a fraction
\* when a dot and a digit follow
NumberAt(t, j) ==
    LET e == DigitRunEnd(t, j)
        hasFrac == e + 2 <= Len(t) /\ Ch(t, e + 1) = "." /\ IsDigit(Ch(t, e + 2))
    IN  float_(SubSeq(t, j, e), IF hasFrac THEN SubSeq(t, e + 2, DigitRunEnd(t, e + 2)) ELSE "")

\* (?:a|b|...).*?(\d+(?:\.\d+)?) tried at position i: the alternatives in order
RECURSIVE PriceMatchAt(_, _, _, _)
PriceMatchAt(t, i, triggers, k) ==
    IF k > Len(triggers) THEN -1
    ELSE IF LitAt(t, i, triggers[k]) /\ FirstDigitOnLine(t, i + Len(triggers[k])) > 0
    THEN NumberAt(t, FirstDigitOnLine(t, i + Len(triggers[k])))
    ELSE PriceMatchAt(t, i, triggers, k + 1)

\* re.search of that pattern: the leftmost position that matches; -1 for no match
RECURSIVE PriceSearchFrom(_, _, _)
PriceSearchFrom(t, triggers, i) ==
    IF i > Len(t) THEN -1
    ELSE IF PriceMatchAt(t, i, triggers, 1) >= 0 THEN PriceMatchAt(t, i, triggers, 1)
    ELSE PriceSearchFrom(t, triggers, i + 1)

_extract_price_max(text) ==
    LET t == lower(text)
        m_en == PriceSearchFrom(t, PRICE_TRIGGERS_EN, 1)
        m == IF m_en >= 0 THEN m_en ELSE PriceSearchFrom(t, PRICE_TRIGGERS_ES, 1)
    IN  IF m < 0 THEN 0 ELSE m

\* str.upper() on one character
UpperOf == [c \in CharsOf(AllLower) |->
               Ch(AllUpper, CHOOSE i \in 1..Len(AllLower) : Ch(AllLower, i) = c)]
UpperCh(c) == IF c \in DOMAIN UpperOf THEN UpperOf[c] ELSE c

\* str.title(): a letter that follows a letter is lowered, any other letter raised
RECURSIVE TitleFrom(_, _)
TitleFrom(s, i) ==
    IF i > Len(s) THEN ""
    ELSE (IF i > 1 /\ Ch(s, i - 1) \in LetterChars THEN LowerCh(Ch(s, i)) ELSE UpperCh(Ch(s, i)))
         \o TitleFrom(s, i + 1)

title(s) == TitleFrom(s, 1)

\* the product catalog mock_products.json: name, brand, price (hundredths), size
MOCK_PRODUCTS ==
    <<[name |-> "Amul Milk", brand |-> "Amul", price |-> 300, size |-> "1L"],
      [name |-> "Colgate Toothpaste", brand |-> "Colgate", price |-> 450, size |-> "medium"],
      [name |-> "DairyPure Milk", brand |-> "DairyPure", price |-> 550, size |-> "large"]>>

\* {p["brand"].lower() for p in products if p["brand"]}
CatalogBrands == {lower(MOCK_PRODUCTS[i].brand) : i \in {j \in 1..Len(MOCK_PRODUCTS) : MOCK_PRODUCTS[j].brand # ""}}

\* the orders in which a Python set of those brands can iterate
BrandOrders == {o \in [1..Cardinality(CatalogBrands) -> CatalogBrands] :
                   \A i, j \in DOMAIN o : i # j => o[i] # o[j]}

BRAND_WORDS == <<"brand", "from", "marca", "de">>

\* index of the last character of the run of [\w\-] that starts at i
RECURSIVE BrandRunEnd(_, _)
BrandRunEnd(t, i) ==
    IF i + 1 <= Len(t) /\ (IsWordCh(Ch(t, i + 1)) \/ Ch(t, i + 1) = "-")
    THEN BrandRunEnd(t, i + 1) ELSE i

\* (?:brand|from|marca|de)\s+([a-zA-Z0-9][\w\-]+) tried at i: the group, "" for no match
RECURSIVE BrandMatchAt(_, _, _)
BrandMatchAt(t, i, k) ==
    IF k > Len(BRAND_WORDS) THEN ""
    ELSE LET j == SkipSpaces(t, i + Len(BRAND_WORDS[k]))
         IN  IF /\ LitAt(t, i, BRAND_WORDS[k])
                /\ j > i + Len(BRAND_WORDS[k])
                /\ j <= Len(t)
                /\ Ch(t, j) \in (CharsOf(AsciiLower) \cup CharsOf(AsciiUpper) \cup DigitChars)
                /\ BrandRunEnd(t, j) > j
             THEN SubSeq(t, j, BrandRunEnd(t, j))
             ELSE BrandMatchAt(t, i, k + 1)

RECURSIVE BrandSearchFrom(_, _)
BrandSearchFrom(t, i) ==
    IF i > Len(t) THEN ""
    ELSE IF WordBoundary(t, i) /\ BrandMatchAt(t, i, 1) # "" THEN BrandMatchAt(t, i, 1)
    ELSE BrandSearchFrom(t, i + 1)

\* for b in brands: the first brand of the iteration found as a whole word
RECURSIVE BrandLoop(_, _, _)
BrandLoop(t, brands, i) ==
    IF i > Len(brands) THEN ""
    ELSE IF SearchWord(t, brands[i]) THEN brands[i]
    ELSE BrandLoop(t, brands, i + 1)

\* brands: the iteration order of the set of catalog brands in this process
_extract_brand(text, brands) ==
    LET t == lower(text)
        brand_found == BrandSearchFrom(t, 1)
        b == BrandLoop(t, brands, 1)
    IN  IF b # "" THEN title(b) ELSE title(brand_found)

SIZE_KEYWORDS ==
    <<[k |-> "small", v |-> "small"], [k |-> "pequeÃ±o", v |-> "small"],
      [k |-> "chico", v |-> "small"], [k |-> "medium", v |-> "medium"],
      [k |-> "mediano", v |-> "medium"], [k |-> "large", v |-> "large"],
      [k |-> "grande", v |-> "large"], [k |-> "500ml", v |-> "500ml"],
      [k |-> "1l", v |-> "1L"], [k |-> "1 l", v |-> "1L"], [k |-> "2kg", v |-> "2kg"],
      [k |-> "2 kg", v |-> "2kg"], [k |-> "1kg", v |-> "1kg"]>>

SIZE_UNITS == <<"ml", "l", "kg", "g", "oz", "lb">>

RECURSIVE SizeKeywordLoop(_, _)
SizeKeywordLoop(t, i) ==
    IF i > Len(SIZE_KEYWORDS) THEN ""
    ELSE IF SearchWord(t, SIZE_KEYWORDS[i].k) THEN SIZE_KEYWORDS[i].v
    ELSE SizeKeywordLoop(t, i + 1)

\* \s*(?:ml|l|kg|g|oz|lb))\b from position j: index of the last character, 0 for no match
RECURSIVE UnitEnd(_, _, _)
UnitEnd(t, j, k) ==
    IF k > Len(SIZE_UNITS) THEN 0
    ELSE LET u == SkipSpaces(t, j)
         IN  IF LitAt(t, u, SIZE_UNITS[k]) /\ WordBoundary(t, u + Len(SIZE_UNITS[k]))
             THEN u + Len(SIZE_UNITS[k]) - 1
             ELSE UnitEnd(t, j, k + 1)

\* \b(\d+(?:\.\d+)?\s*(?:ml|l|kg|g|oz|lb))\b tried at i: index of the last character
SizeMatchEnd(t, i) ==
    LET e == DigitRunEnd(t, i)
        hasFrac == e + 2 <= Len(t) /\ Ch(t, e + 1) = "." /\ IsDigit(Ch(t, e + 2))
        withFrac == IF hasFrac THEN UnitEnd(t, DigitRunEnd(t, e + 2) + 1, 1) ELSE 0
    IN  IF ~(WordBoundary(t, i) /\ IsDigit(Ch(t, i))) THEN 0
        ELSE IF withFrac > 0 THEN withFrac
        ELSE UnitEnd(t, e + 1, 1)

RECURSIVE SizeSearchFrom(_, _)
SizeSearchFrom(t, i) ==
    IF i > Len(t) THEN ""
    ELSE IF SizeMatchEnd(t, i) > 0 THEN SubSeq(t, i, SizeMatchEnd(t, i))
    ELSE SizeSearchFrom(t, i + 1)

\* str.replace(" ", "")
RECURSIVE RemoveBlanks(_)
RemoveBlanks(t) ==
    IF t = "" THEN ""
    ELSE (IF Head(t) = " " THEN "" ELSE Head(t)) \o RemoveBlanks(Tail(t))

_extract_size(text) ==
    LET t == lower(text)
        kw == SizeKeywordLoop(t, 1)
    IN  IF kw # "" THEN kw ELSE RemoveBlanks(SizeSearchFrom(t, 1))

extract_filters(text, brands) ==
    [brand |-> _extract_brand(text, brands),
     size |-> _extract_size(text),
     price_max |-> _extract_price_max(text)]

--------------------------------------------------------------------------
(* nlp/categories.py                                                       *)

CATEGORY_KEYWORDS ==
    <<[cat |-> "dairy", words |-> {"milk", "cheese", "yogurt", "butter"}],
      [cat |-> "produce", words |-> {"apple", "apples", "banana", "bananas", "lettuce",
                                     "tomato", "tomatoes", "onion", "onions"}],
      [cat |-> "snacks", words |-> {"chips", "cookies", "crackers", "granola"}],
      [cat |-> "beverages", words |-> {"water", "juice", "soda", "coffee", "tea"}],
      [cat |-> "bakery", words |-> {"bread", "bagel", "croissant"}],
      [cat |-> "pantry", words |-> {"rice", "pasta", "beans", "flour", "sugar", "salt"}]>>

RECURSIVE CategoryLoop(_, _)
CategoryLoop(item_l, i) ==
    IF i > Len(CATEGORY_KEYWORDS) THEN "other"
    ELSE IF \E w \in CATEGORY_KEYWORDS[i].words : Contains(item_l, w)
    THEN CATEGORY_KEYWORDS[i].cat
    ELSE CategoryLoop(item_l, i + 1)

\* categorize_item matching the keywords against the phrase as it was given
categorize_item_no_lower(item) == IF item = "" THEN "other" ELSE CategoryLoop(item, 1)

categorize_item(item) == IF item = "" THEN "other" ELSE CategoryLoop(lower(item), 1)

--------------------------------------------------------------------------
(* nlp/parser.py: extract_item                                             *)

\* the characters the first substitution keeps: [a-zA-Z0-9áéíóúñÁÉÍÓÚÑ\s\-]
ITEM_CHARS == LetterChars \cup DigitChars \cup SpaceChars \cup {"-"}

RECURSIVE KeepItemChars(_)
KeepItemChars(t) ==
    IF t = "" THEN ""
    ELSE (IF Head(t) \in ITEM_CHARS THEN Head(t) ELSE " ") \o KeepItemChars(Tail(t))

\* re.sub(r"\b\d+\b", " ", t)
RECURSIVE SubDigitTokensFrom(_, _)
SubDigitTokensFrom(t, i) ==
    IF i > Len(t) THEN ""
    ELSE IF DigitTokenAt(t, i) THEN " " \o SubDigitTokensFrom(t, DigitRunEnd(t, i) + 1)
    ELSE Ch(t, i) \o SubDigitTokensFrom(t, i + 1)

\* length of the first alternative of \b(w1|w2|...)\b that matches at i, 0 when none
RECURSIVE AltAt(_, _, _, _)
AltAt(t, i, words, k) ==
    IF k > Len(words) THEN 0
    ELSE IF WordAt(t, i, words[k]) THEN Len(words[k])
    ELSE AltAt(t, i, words, k + 1)

\* re.sub(r"\b(w1|w2|...)\b", " ", t)
RECURSIVE SubAltFrom(_, _, _)
SubAltFrom(t, words, i) ==
    IF i > Len(t) THEN ""
    ELSE IF AltAt(t, i, words, 1) > 0 THEN " " \o SubAltFrom(t, words, i + AltAt(t, i, words, 1))
    ELSE Ch(t, i) \o SubAltFrom(t, words, i + 1)

CONTAINERS_EN ==
    <<"bottle", "bottles", "pack", "packs", "bag", "bags", "box", "boxes", "cans", "can">>
CONTAINERS_ES ==
    <<"botella", "botellas", "paquete", "paquetes", "bolsa", "bolsas", "caja", "cajas",
      "latas", "lata">>
CONNECTORS == <<"of", "de">>

stopwords_en ==
    {"a", "an", "the", "some", "of", "to", "for", "please", "me", "i", "we", "need",
     "want", "buy", "add", "remove", "delete", "change", "set", "update", "modify",
     "search", "find", "look", "show", "get"}

stopwords_es ==
    {"un", "una", "unos", "unas", "el", "la", "los", "las", "de", "del", "por", "para",
     "porfavor", "favor", "yo", "necesito", "quiero", "compra", "agrega", "añade",
     "anade", "quita", "borra", "elimina", "cambia", "modifica", "actualiza", "busca",
     "muestra"}

\* t.split(" "): the pieces between single spaces, empty ones included
RECURSIVE SplitFrom(_, _, _)
SplitFrom(t, i, cur) ==
    IF i > Len(t) THEN <<cur>>
    ELSE IF Ch(t, i) = " " THEN <<cur>> \o SplitFrom(t, i + 1, "")
    ELSE SplitFrom(t, i + 1, cur \o Ch(t, i))

split(t) == SplitFrom(t, 1, "")

\* " ".join(toks)
RECURSIVE join(_)
join(toks) ==
    IF Len(toks) = 0 THEN ""
    ELSE IF Len(toks) = 1 THEN toks[1]
    ELSE toks[1] \o " " \o join(Tail(toks))

\* extract_item with the English stop words for every language
extract_item_stop_en(text, language) ==
    LET t1 == strip(CollapseSpaces(lower(KeepItemChars(text))))
        t2 == strip(SubDigitTokensFrom(t1, 1))
        t3 == strip(SubAltFrom(t2, CONTAINERS_EN, 1))
        t4 == strip(SubAltFrom(t3, CONTAINERS_ES, 1))
        t5 == strip(SubAltFrom(t4, CONNECTORS, 1))
        tokens == SelectSeq(split(t5), LAMBDA tok : tok # "" /\ tok \notin stopwords_en)
    IN  strip(join(tokens))

extract_item(text, language) ==
    LET t1 == strip(CollapseSpaces(lower(KeepItemChars(text))))
        t2 == strip(SubDigitTokensFrom(t1, 1))
        t3 == strip(SubAltFrom(t2, CONTAINERS_EN, 1))
        t4 == strip(SubAltFrom(t3, CONTAINERS_ES, 1))
        t5 == strip(SubAltFrom(t4, CONNECTORS, 1))
        stop == IF language = "es" THEN stopwords_es ELSE stopwords_en
        tokens == SelectSeq(split(t5), LAMBDA tok : tok # "" /\ tok \notin stop)
    IN  strip(join(tokens))

--------------------------------------------------------------------------
(* schemas.py and nlp/parser.py: _openai_parse, parse_voice_command        *)

Action == {"add", "remove", "modify", "search", "invalid"}

\* Filters() of schemas.py
DefaultFilters == [brand |-> "", size |-> "", price_max |-> 0]

\* stands where a call returned no ParsedVoiceCommand
NullCommand ==
    [action |-> "", item |-> "", quantity |-> 0, category |-> "", filters |-> DefaultFilters,
     language |-> "", raw_text |-> ""]

\* the outcome of a call: the exception that left it ("" for none), or its value
Returned(cmd) == [exc |-> "", some |-> TRUE, cmd |-> cmd]
ReturnedNone == [exc |-> "", some |-> FALSE, cmd |-> NullCommand]
Raised(e) == [exc |-> e, some |-> FALSE, cmd |-> NullCommand]

(* The surroundings of one call, env:                                      *)
(*   api_key, enable  OPENAI_API_KEY is set; ENABLE_OPENAI_PARSER is on    *)
(*   fault            what fails on the way to the reply: "none",          *)
(*                    "import" (from openai import OpenAI), "client"       *)
(*                    (OpenAI()), "network" (chat.completions.create),     *)
(*                    "choices" (resp.choices is empty)                    *)
(*   reply            the reply's content after the fences are stripped:   *)
(*                    json is "invalid" (json.loads fails), "array" or     *)
(*                    "scalar" (valid JSON, no object) or "object" with    *)
(*                    data, where qtype says whether quantity is an int     *)
(*   brands           iteration order of the set of catalog brands         *)

\* ParsedVoiceCommand.model_validate(data): Action is a Literal, quantity an int
\* with no lower bound
model_validate(data) ==
    IF data.action \in Action /\ data.qtype = "int"
    THEN Returned([action |-> data.action, item |-> data.item, quantity |-> data.quantity,
                   category |-> data.category, filters |-> DefaultFilters,
                   language |-> data.language, raw_text |-> data.raw_text])
    ELSE Raised("ValidationError")

_openai_parse(text, language, env) ==
    IF ~env.api_key THEN ReturnedNone
    ELSE IF ~env.enable THEN ReturnedNone
    ELSE IF env.fault = "import" THEN ReturnedNone
    ELSE IF env.fault = "client" THEN Raised("OpenAIError")
    ELSE IF env.fault = "network" THEN Raised("APIConnectionError")
    ELSE IF env.fault = "choices" THEN Raised("IndexError")
    ELSE IF env.reply.json = "invalid" THEN ReturnedNone
    ELSE IF env.reply.json # "object" THEN Raised("TypeError")
    ELSE LET data == [action |-> env.reply.data.action, item |-> env.reply.data.item,
                      quantity |-> env.reply.data.quantity, qtype |-> env.reply.data.qtype,
                      category |-> env.reply.data.category,
                      language |-> language, raw_text |-> text]
             v == model_validate(data)
         IN  IF v.exc = "ValidationError" THEN ReturnedNone ELSE v

\* the rule-based pipeline with the filters read after the quantity is stripped
rule_based_command_strip_first(text, language, brands) ==
    LET action == detect_intent(text, language)
        qc == extract_quantity(text, language)
        filters == extract_filters(qc.cleaned_text, brands)
        item == extract_item(qc.cleaned_text, language)
        category == categorize_item(item)
    IN  [action |-> action, item |-> item, quantity |-> Max(1, qc.quantity),
         category |-> category,
         filters |-> [brand |-> filters.brand, size |-> "", price_max |-> filters.price_max],
         language |-> language, raw_text |-> text]

\* lines 179-201 of parse_voice_command: the rule-based pipeline
rule_based_command(text, language, brands) ==
    LET action == detect_intent(text, language)
        filters == extract_filters(text, brands)
        qc == extract_quantity(text, language)
        item == extract_item(qc.cleaned_text, language)
        category == categorize_item(item)
    IN  [action |-> action, item |-> item, quantity |-> Max(1, qc.quantity),
         category |-> category,
         filters |-> [brand |-> filters.brand, size |-> "", price_max |-> filters.price_max],
         language |-> language, raw_text |-> text]

parse_voice_command(text, language_hint, env) ==
    LET language == detect_language(text, language_hint)
        parsed == _openai_parse(text, language, env)
    IN  IF parsed.exc # "" THEN parsed
        ELSE IF parsed.some
        THEN Returned([parsed.cmd EXCEPT !.category =
                          IF @ = "" \/ @ = "other" THEN categorize_item(parsed.cmd.item) ELSE @])
        ELSE Returned(rule_based_command(text, language, env.brands))

--------------------------------------------------------------------------
(* main.py: the tables and the helpers of the request handlers             *)

\* select(ShoppingItem).where(ShoppingItem.name == norm): its index in items, 0 for None
RowOf(rows, norm) ==
    IF \E i \in 1..Len(rows) : rows[i].name = norm
    THEN CHOOSE i \in 1..Len(rows) : rows[i].name = norm
    ELSE 0

\* the id a new row gets: one more than the largest rowid of the table
NextId(rows) ==
    IF Len(rows) = 0 THEN 1
    ELSE 1 + (CHOOSE m \in {rows[i].id : i \in 1..Len(rows)} :
                  \A i \in 1..Len(rows) : rows[i].id <= m)

\* db.delete(row)
DeleteRow(rows, k) == SubSeq(rows, 1, k - 1) \o SubSeq(rows, k + 1, Len(rows))

_get_items(rows) == rows

_touch_history(hist, item_name, action_type) ==
    LET name == lower(strip(item_name))
    IN  IF name = "" THEN hist
        ELSE IF ~\E r \in hist : r.item_name = name
        THEN hist \cup {IF action_type = "purchase"
                        THEN [item_name |-> name, purchase_count |-> 1, search_count |-> 0]
                        ELSE [item_name |-> name, purchase_count |-> 0, search_count |-> 1]}
        ELSE {IF r.item_name # name THEN r
              ELSE IF action_type = "purchase"
              THEN [r EXCEPT !.purchase_count = @ + 1]
              ELSE [r EXCEPT !.search_count = @ + 1] : r \in hist}

\* what a helper did: the exception that left it ("" for none), its detail or
\* returned error, and the table after it
Done(rows) == [exc |-> "", detail |-> "", rows |-> rows]
Failed(e, detail, rows) == [exc |-> e, detail |-> detail, rows |-> rows]

\* the loop over _products(): the index of the catalog entry whose name is norm,
\* else of the first one whose name holds norm or is held by it; 0 for none
RECURSIVE BestMatchLoop(_, _, _)
BestMatchLoop(norm, i, best_match) ==
    IF i > Len(MOCK_PRODUCTS) THEN best_match
    ELSE IF lower(MOCK_PRODUCTS[i].name) = norm THEN i
    ELSE IF best_match = 0 /\ (\/ Contains(lower(MOCK_PRODUCTS[i].name), norm)
                               \/ Contains(norm, lower(MOCK_PRODUCTS[i].name)))
    THEN BestMatchLoop(norm, i + 1, i)
    ELSE BestMatchLoop(norm, i + 1, best_match)

\* ShoppingItem(...) of a new row, with brand, price and size of the best match
NewItem(id, norm, quantity, category, best_match) ==
    [id |-> id, name |-> norm, quantity |-> Max(1, quantity),
     category |-> IF category # "" THEN category ELSE "other",
     brand |-> IF best_match = 0 THEN "" ELSE MOCK_PRODUCTS[best_match].brand,
     price |-> IF best_match = 0 THEN 0 ELSE MOCK_PRODUCTS[best_match].price,
     size |-> IF best_match = 0 THEN "" ELSE MOCK_PRODUCTS[best_match].size]

\* _upsert_item that lets a quantity above 100 through
_upsert_item_no_upper(rows, name, quantity, category) ==
    LET norm == lower(strip(name))
        k == RowOf(rows, norm)
    IN  IF quantity <= 0
        THEN Failed("AppValidationError", "Quantity must be between 1 and 100", rows)
        ELSE IF norm = ""
        THEN Failed("HTTPException", "No item detected in voice command.", rows)
        ELSE IF k > 0
        THEN Done([rows EXCEPT ![k].quantity = @ + Max(1, quantity),
                               ![k].category = IF category # "" THEN category
                                               ELSE IF @ # "" THEN @ ELSE "other"])
        ELSE Done(Append(rows, NewItem(NextId(rows), norm, quantity, category,
                                       BestMatchLoop(norm, 1, 0))))

\* one request at a time: the insert never meets the unique constraint
_upsert_item(rows, name, quantity, category) ==
    LET norm == lower(strip(name))
        k == RowOf(rows, norm)
    IN  IF quantity <= 0 \/ quantity > 100
        THEN Failed("AppValidationError", "Quantity must be between 1 and 100", rows)
        ELSE IF norm = ""
        THEN Failed("HTTPException", "No item detected in voice command.", rows)
        ELSE IF k > 0
        THEN Done([rows EXCEPT ![k].quantity = @ + Max(1, quantity),
                               ![k].category = IF category # "" THEN category
                                               ELSE IF @ # "" THEN @ ELSE "other"])
        ELSE Done(Append(rows, NewItem(NextId(rows), norm, quantity, category,
                                       BestMatchLoop(norm, 1, 0))))

_modify_item(rows, name, quantity, category) ==
    LET norm == lower(strip(name))
        k == RowOf(rows, norm)
    IN  IF quantity < 0 \/ quantity > 100
        THEN Failed("HTTPException", "Quantity must be between 0 and 100", rows)
        ELSE IF norm = "" THEN Failed("HTTPException", "No item detected to modify.", rows)
        ELSE IF k = 0 THEN Failed("HTTPException", "Item '" \o norm \o "' not found.", rows)
        ELSE IF quantity = 0 THEN Done(DeleteRow(rows, k))
        ELSE Done([rows EXCEPT ![k].quantity = quantity,
                               ![k].category = IF category # "" THEN category ELSE @])

\* returns a dict: success False with ITEM_NOT_FOUND, or success True
_remove_item(rows, name, quantity) ==
    LET norm == lower(strip(name))
        k == RowOf(rows, norm)
    IN  IF norm = "" \/ k = 0 THEN Failed("", "ITEM_NOT_FOUND", rows)
        ELSE IF quantity > 0 /\ rows[k].quantity > quantity
        THEN Done([rows EXCEPT ![k].quantity = @ - quantity])
        ELSE Done(DeleteRow(rows, k))

--------------------------------------------------------------------------
(* main.py: POST /process-voice                                            *)

VoiceResponse(success, error_code, message, parsed, rows) ==
    [done |-> TRUE, status |-> 200, success |-> success, error_code |-> error_code,
     message |-> message, parsed |-> parsed, items |-> rows]

\* the handler on the tables as they are, p being what the call of
\* parse_voice_command on its first line came to: the response and the tables
\* after it
process_voice(rows, hist, p) ==
    LET parsed == p.cmd
        up == _upsert_item(rows, parsed.item, parsed.quantity, parsed.category)
        mo == _modify_item(rows, parsed.item, parsed.quantity, parsed.category)
        rm == _remove_item(rows, parsed.item, parsed.quantity)
        invalid == [resp |-> VoiceResponse(FALSE, "INVALID_COMMAND",
                                           "Could not understand command", parsed, <<>>),
                    rows |-> rows, hist |-> hist]
    IN  IF p.exc # ""
        THEN [resp |-> VoiceResponse(FALSE, "INTERNAL_ERROR", p.exc, NullCommand, <<>>),
              rows |-> rows, hist |-> hist]
        ELSE IF parsed.action = "invalid" THEN invalid
        ELSE IF parsed.action = "add"
        THEN IF up.exc = "HTTPException"
             THEN [resp |-> VoiceResponse(FALSE, "INTERNAL_ERROR", "400: " \o up.detail,
                                          NullCommand, <<>>),
                   rows |-> rows, hist |-> hist]
             ELSE [resp |-> IF up.exc = "AppValidationError"
                            THEN VoiceResponse(FALSE, "VALIDATION_ERROR", up.detail, parsed,
                                               _get_items(up.rows))
                            ELSE VoiceResponse(TRUE, "", "", parsed, _get_items(up.rows)),
                   rows |-> up.rows,
                   hist |-> _touch_history(hist, parsed.item, "purchase")]
        ELSE IF parsed.action = "modify"
        THEN [resp |-> IF mo.exc # ""
                       THEN VoiceResponse(FALSE, "VALIDATION_ERROR", mo.detail, parsed,
                                          _get_items(mo.rows))
                       ELSE VoiceResponse(TRUE, "", "", parsed, _get_items(mo.rows)),
              rows |-> mo.rows, hist |-> hist]
        ELSE IF parsed.action = "remove"
        THEN [resp |-> IF rm.detail # ""
                       THEN VoiceResponse(FALSE, rm.detail, "Item not in list", parsed,
                                          _get_items(rm.rows))
                       ELSE VoiceResponse(TRUE, "", "", parsed, _get_items(rm.rows)),
              rows |-> rm.rows, hist |-> hist]
        ELSE IF parsed.action = "search"
        THEN [resp |-> VoiceResponse(TRUE, "", "", parsed, _get_items(rows)),
              rows |-> rows, hist |-> _touch_history(hist, parsed.item, "search")]
        ELSE invalid

--------------------------------------------------------------------------
(* main.py: the other endpoints of the shopping list                       *)

\* a response of an endpoint that parses no Command
Response(status, message, rows) ==
    [done |-> TRUE, status |-> status, success |-> status = 200, error_code |-> "",
     message |-> message, parsed |-> NullCommand, items |-> rows]

\* the error body every handled failure is answered with
_standard_error_response(message, error_code) ==
    [done |-> TRUE, status |-> 400, success |-> FALSE, error_code |-> error_code,
     message |-> message, parsed |-> NullCommand, items |-> <<>>]

\* a body that fails the request schema never reaches the endpoint
request_validation_exception_handler ==
    _standard_error_response("Invalid request payload", "VALIDATION_ERROR")

\* POST /modify-item with a body that passed ModifyItemRequest
modify_item(rows, item, quantity) ==
    LET norm_name == lower(strip(item))
        k == RowOf(rows, norm_name)
    IN  IF norm_name = "" THEN [resp |-> Response(400, "Item name is required.", <<>>), rows |-> rows]
        ELSE IF quantity < 0 \/ quantity > 100
        THEN [resp |-> Response(400, "Quantity must be between 0 and 100.", <<>>), rows |-> rows]
        ELSE IF k = 0
        THEN [resp |-> Response(404, "Item '" \o norm_name \o "' not found.", <<>>),
              rows |-> rows]
        ELSE LET after == IF quantity = 0 THEN DeleteRow(rows, k)
                          ELSE [rows EXCEPT ![k].quantity = quantity]
             IN  [resp |-> Response(200, "", _get_items(after)), rows |-> after]

\* DELETE /items/{id}
delete_item(rows, id) ==
    IF \E k \in 1..Len(rows) : rows[k].id = id
    THEN LET k == CHOOSE j \in 1..Len(rows) : rows[j].id = id
         IN  [resp |-> Response(200, "deleted", <<>>), rows |-> DeleteRow(rows, k)]
    ELSE [resp |-> Response(404, "Item not found.", <<>>), rows |-> rows]

\* GET /items
get_items(rows) == Response(200, "", _get_items(rows))

--------------------------------------------------------------------------
(* database.py: init_db, run by the startup hook of the application        *)

\* init_db that empties user_history as well
init_db_drop_all(rows, hist) == [rows |-> <<>>, hist |-> {}]

\* create_all keeps the tables that exist; delete(ShoppingItem) empties one of them
init_db(rows, hist) == [rows |-> <<>>, hist |-> hist]

--------------------------------------------------------------------------
(* nlp/fuzzy.py, search_service.py, recommendation.py and POST /search     *)

\* difflib: length of the common run of a from i and b from j, inside a[..ahi], b[..bhi]
RECURSIVE RunLen(_, _, _, _, _, _)
RunLen(a, b, i, j, ahi, bhi) ==
    IF i > ahi \/ j > bhi \/ Ch(a, i) # Ch(b, j) THEN 0
    ELSE 1 + RunLen(a, b, i + 1, j + 1, ahi, bhi)

\* SequenceMatcher.find_longest_match on a[alo..ahi] and b[blo..bhi]: <<i, j, k>>
\* of a longest common block, the one that starts earliest in a and, among
\* those, earliest in b; k = 0 when the pieces share no character
find_longest_match(a, b, alo, ahi, blo, bhi) ==
    LET blocks == {<<i, j, RunLen(a, b, i, j, ahi, bhi)>> : i \in alo..ahi, j \in blo..bhi}
    IN  IF blocks = {} THEN <<alo, blo, 0>>
        ELSE CHOOSE m \in blocks : \A n \in blocks :
                \/ m[3] > n[3]
                \/ m[3] = n[3] /\ m[1] < n[1]
                \/ m[3] = n[3] /\ m[1] = n[1] /\ m[2] <= n[2]

\* the characters in the matching blocks of SequenceMatcher(a, b): the longest
\* block, then the same to its left and to its right
RECURSIVE MatchingCharacters(_, _, _, _, _, _)
MatchingCharacters(a, b, alo, ahi, blo, bhi) ==
    IF alo > ahi \/ blo > bhi THEN 0
    ELSE LET m == find_longest_match(a, b, alo, ahi, blo, bhi)
         IN  IF m[3] = 0 THEN 0
             ELSE m[3] + MatchingCharacters(a, b, alo, m[1] - 1, blo, m[2] - 1)
                       + MatchingCharacters(a, b, m[1] + m[3], ahi, m[2] + m[3], bhi)

\* ratio() = 2.0 * matches / (len(a) + len(b)), as the pair <<2 * matches, len(a) + len(b)>>
ratio(a, b) == <<2 * MatchingCharacters(a, b, 1, Len(a), 1, Len(b)), Len(a) + Len(b)>>

\* the characters of the product names in the order of their code points
CodePoints == " -0123456789ABCDEFGHIJKLMNOPQRSTUVWXYZ_abcdefghijklmnopqrstuvwxyzÁÉÍÑÓÚáéíñóú"
CodeOf(c) == IF c \in CharsOf(CodePoints)
             THEN CHOOSE i \in 1..Len(CodePoints) : Ch(CodePoints, i) = c ELSE 0

\* Python's  x > y  on str
RECURSIVE StrGreater(_, _)
StrGreater(x, y) ==
    IF x = "" THEN FALSE
    ELSE IF y = "" THEN TRUE
    ELSE IF Head(x) # Head(y) THEN CodeOf(Head(x)) > CodeOf(Head(y))
    ELSE StrGreater(Tail(x), Tail(y))

\* (score, x) > (score, y) of two scored candidates
ScoredGreater(rx, x, ry, y) ==
    \/ rx[1] * ry[2] > ry[1] * rx[2]
    \/ rx[1] * ry[2] = ry[1] * rx[2] /\ StrGreater(x, y)

\* difflib.get_close_matches(word, possibilities, n, cutoff) with a cutoff of
\* cutoff_pct hundredths: the set of the n best possibilities that score the
\* cutoff or more (an empty sequence scores 1.0 against an empty one)
get_close_matches(word, possibilities, n, cutoff_pct) ==
    LET score(x) == IF Len(x) + Len(word) = 0 THEN <<1, 1>> ELSE ratio(x, word)
        close == {x \in Range(possibilities) :
                     score(x)[1] * 100 >= cutoff_pct * score(x)[2]}
    IN  {x \in close :
            Cardinality({y \in close : ScoredGreater(score(y), y, score(x), x)}) < n}

\* fuzzy_match_item(query, known_items, cutoff): the caller uses the matches as a set
fuzzy_match_item(query, known_items, cutoff_pct) ==
    get_close_matches(strip(lower(query)), known_items, 3, cutoff_pct)

ProductNames(prods) == [i \in 1..Len(prods) |-> prods[i].name]

filter_by_name(prods, query) ==
    IF query = "" THEN prods
    ELSE SelectSeq(prods, LAMBDA p : Contains(lower(p.name), lower(query)))

filter_by_brand(prods, brand) ==
    IF brand = "" THEN prods
    ELSE SelectSeq(prods, LAMBDA p : Contains(lower(p.brand), lower(brand)))

filter_by_size(prods, size) ==
    IF size = "" THEN prods
    ELSE SelectSeq(prods, LAMBDA p : Contains(lower(p.size), lower(size)))

filter_by_price(prods, price_max) ==
    IF price_max <= 0 THEN prods
    ELSE SelectSeq(prods, LAMBDA p : p.price <= price_max)

apply_fuzzy_match(prods, query) ==
    IF query = "" \/ Len(prods) = 0 THEN <<>>
    ELSE LET fuzzy_matches == fuzzy_match_item(lower(query), ProductNames(prods), 50)
         IN  SelectSeq(prods, LAMBDA p : p.name \in fuzzy_matches)

\* SearchService.search that filters by price only when a brand is given
SearchService_search_price_with_brand(query, filters) ==
    LET by_name == filter_by_name(MOCK_PRODUCTS, query)
        name_matches == IF Len(by_name) = 0 /\ query # ""
                        THEN apply_fuzzy_match(MOCK_PRODUCTS, query) ELSE by_name
        results == IF Len(name_matches) > 0 THEN name_matches ELSE MOCK_PRODUCTS
        branded == filter_by_size(filter_by_brand(results, filters.brand), filters.size)
    IN  IF filters.brand = "" THEN branded ELSE filter_by_price(branded, filters.price_max)

\* SearchService.search on the products of the catalog
SearchService_search(query, filters) ==
    LET by_name == filter_by_name(MOCK_PRODUCTS, query)
        name_matches == IF Len(by_name) = 0 /\ query # ""
                        THEN apply_fuzzy_match(MOCK_PRODUCTS, query) ELSE by_name
        results == IF Len(name_matches) > 0 THEN name_matches ELSE MOCK_PRODUCTS
    IN  filter_by_price(filter_by_size(filter_by_brand(results, filters.brand),
                                       filters.size), filters.price_max)

_search_products(query, filters) == SearchService_search(query, filters)

SUBSTITUTE_MAP ==
    <<[k |-> "milk", subs |-> <<"almond milk", "soy milk", "oat milk">>],
      [k |-> "sugar", subs |-> <<"brown sugar", "stevia">>],
      [k |-> "butter", subs |-> <<"olive oil", "ghee", "margarine">>],
      [k |-> "eggs", subs |-> <<"flax eggs", "chia eggs">>],
      [k |-> "chips", subs |-> <<"popcorn", "pretzels">>]>>

\* keeps the first of the entries that are equal once trimmed and lower-cased
RECURSIVE DedupeFrom(_, _, _)
DedupeFrom(xs, i, seen) ==
    IF i > Len(xs) THEN <<>>
    ELSE LET k == lower(strip(xs[i]))
         IN  IF k = "" \/ k \in seen THEN DedupeFrom(xs, i + 1, seen)
             ELSE <<xs[i]>> \o DedupeFrom(xs, i + 1, seen \cup {k})

_dedupe_preserve_order(xs) == DedupeFrom(xs, 1, {})

RECURSIVE SubstitutesLoop(_, _)
SubstitutesLoop(q, i) ==
    IF i > Len(SUBSTITUTE_MAP) THEN <<>>
    ELSE (IF Contains(q, SUBSTITUTE_MAP[i].k) THEN SUBSTITUTE_MAP[i].subs ELSE <<>>)
         \o SubstitutesLoop(q, i + 1)

get_substitutes_for_query(query, limit) ==
    LET all == _dedupe_preserve_order(SubstitutesLoop(strip(lower(query)), 1))
    IN  SubSeq(all, 1, IF Len(all) < limit THEN Len(all) ELSE limit)

\* RecommendationService.get_history_based with the threshold at one interaction
get_history_based_min_one(hist) ==
    LET rows == {r \in hist : r.purchase_count + r.search_count >= 1}
        n == Cardinality(rows)
        orders == {o \in [1..n -> rows] :
                      /\ \A i, j \in 1..n : i # j => o[i] # o[j]
                      /\ \A i, j \in 1..n : i < j =>
                            o[i].purchase_count * 2 + o[i].search_count
                                >= o[j].purchase_count * 2 + o[j].search_count}
    IN  {[i \in 1..(IF n < 3 THEN n ELSE 3) |-> o[i].item_name] : o \in orders}

\* RecommendationService.get_history_based: the item names the query can
\* return, one sequence for each order the database may give to rows of equal
\* score
get_history_based(hist) ==
    LET rows == {r \in hist : r.purchase_count + r.search_count >= 2}
        n == Cardinality(rows)
        orders == {o \in [1..n -> rows] :
                      /\ \A i, j \in 1..n : i # j => o[i] # o[j]
                      /\ \A i, j \in 1..n : i < j =>
                            o[i].purchase_count * 2 + o[i].search_count
                                >= o[j].purchase_count * 2 + o[j].search_count}
    IN  {[i \in 1..(IF n < 3 THEN n ELSE 3) |-> o[i].item_name] : o \in orders}

\* the suggestions of a response, as far as the history decides them
SuggestionGroup(previous) == [done |-> TRUE, status |-> 200, previous |-> previous]

\* GET /recommendations: the responses build_suggestions can produce
get_recommendations(rows, hist) == {SuggestionGroup(previous) : previous \in get_history_based(hist)}

SearchResponse(query, filters, results) ==
    [done |-> TRUE, status |-> 200, query |-> query, filters |-> filters, results |-> results]

\* POST /search, p being what parse_voice_command(req.voice_text) came to when
\* the voice text is not blank; an exception of the parser is answered by the
\* handler of the application for unhandled errors
search(query_text, voice_text, brand, price_max, p) ==
    LET voiced == strip(voice_text) # "" /\ p.cmd.action = "search"
        query == IF voiced /\ p.cmd.item # "" THEN p.cmd.item ELSE strip(query_text)
        filters == IF voiced THEN p.cmd.filters
                   ELSE [brand |-> brand, size |-> "", price_max |-> price_max]
        found == _search_products(query, filters)
        subs == get_substitutes_for_query(query, 5)
        results == IF Len(found) = 0 /\ query # ""
                   THEN [i \in 1..Len(subs) |-> [name |-> subs[i], brand |-> "", price |-> 0]]
                   ELSE found
    IN  IF strip(voice_text) # "" /\ p.exc # ""
        THEN [done |-> TRUE, status |-> 500, query |-> "", filters |-> DefaultFilters,
              results |-> <<>>]
        ELSE SearchResponse(query, filters, results)

--------------------------------------------------------------------------
(* Calls of the pure functions of nlp/: the arguments are drawn in the     *)
(* initial state and one action applies the function to them               *)

NoResp == [done |-> FALSE]
Value(v) == [done |-> TRUE, value |-> v]

\* the texts of one to n words of V, a single space between two words
Sentences(V, n) == UNION {{join(s) : s \in [1..k -> V]} : k \in 1..n}

NoTables == items = <<>> /\ history = {} /\ served = 0

\* the maximal runs of word characters of t
WordsOf(t) ==
    {SubSeq(t, i, j) : <<i, j>> \in
        {ij \in (1..Len(t)) \X (1..Len(t)) :
            /\ ij[1] <= ij[2]
            /\ \A k \in ij[1]..ij[2] : IsWordCh(Ch(t, k))
            /\ (ij[1] = 1 \/ ~IsWordCh(Ch(t, ij[1] - 1)))
            /\ (ij[2] = Len(t) \/ ~IsWordCh(Ch(t, ij[2] + 1)))}}

(* detect_language *)

MaxLanguageWords == 2

LanguageWords ==
    {"Buy", "apples", "Necesito", "leche", "AÑADE", "café,", "buscar", "quita!", "jalapeño"}

LanguageHints ==
    {None_, Some(""), Some("es"), Some("ES-mx"), Some("en"), Some("En-US"), Some("fr"),
     Some("e"), Some("xes")}

InitLanguage ==
    /\ req \in [op : {"detect_language"}, text : Sentences(LanguageWords, MaxLanguageWords),
                hint : LanguageHints]
    /\ resp = NoResp
    /\ NoTables

DetectLanguage ==
    /\ req.op = "detect_language"
    /\ ~resp.done
    /\ resp' = Value(detect_language(req.text, req.hint))
    /\ served' = served + 1
    /\ UNCHANGED <<items, history, req>>

NextLanguage == DetectLanguage

SpecLanguage == InitLanguage /\ [][NextLanguage]_vars

HintStarts(hint, code) ==
    hint.some /\ Len(hint.val) >= 2 /\ lower(SubSeq(hint.val, 1, 2)) = code

HasDiacritic(text) ==
    \E i \in 1..Len(text) : Ch(text, i) \in CharsOf(AccentLower) \cup CharsOf(AccentUpper)

HasSpanishKeyword(text) == \E w \in WordsOf(text) : lower(w) \in SPANISH_KEYWORDS

\* C7: detect_language returns en or es by the decision list: a hint starting
\* (in any case) with es gives es, one starting with en gives en; with no hint or
\* an unrecognized one, a text with one of á é í ó ú ñ gives es, else a text with a
\* Spanish keyword as a whole word gives es, else en.
C7_LanguageDecisionList ==
    (resp.done /\ req.op = "detect_language") =>
        /\ resp.value \in {"en", "es"}
        /\ resp.value =
             IF HintStarts(req.hint, "es") THEN "es"
             ELSE IF HintStarts(req.hint, "en") THEN "en"
             ELSE IF HasDiacritic(req.text) THEN "es"
             ELSE IF HasSpanishKeyword(req.text) THEN "es"
             ELSE "en"

\* an unrecognized hint, a text with ñ but no keyword: es by the diacritic
C7_Witness ==
    /\ resp.done /\ req.op = "detect_language"
    /\ req.hint = Some("fr")
    /\ req.text = "Buy jalapeño"
    /\ resp.value = "es"

(* detect_intent *)

MaxIntentWords == 3

IntentWordsEn == {"how", "show", "Add", "remove", "change", "find", "milk", "don't", "2"}
IntentWordsEs == {"no", "agregues", "busca", "quita", "cambia", "agrega", "leche", "dos"}

\* the trigger phrases of an action in the lexicon of a language
TriggersOf(language, action) ==
    LET lex == IF language = "es" THEN LEXICON_ES ELSE LEXICON_EN
    IN  CASE action = "add" -> lex.add
          [] action = "remove" -> lex.remove
          [] action = "modify" -> lex.modify
          [] action = "search" -> lex.search

\* each trigger phrase of the language followed by the item word
TriggerTexts(language, item) ==
    UNION {{TriggersOf(language, a)[k] \o " " \o item : k \in 1..Len(TriggersOf(language, a))} :
              a \in {"add", "remove", "modify", "search"}}

\* each language with texts of its own words, either language with the
\* shorter texts of all the words, and each language with its trigger phrases
\* and a counted item
InitIntent ==
    /\ req \in [op : {"detect_intent"}, text : Sentences(IntentWordsEn, MaxIntentWords),
                 language : {"en"}]
            \cup [op : {"detect_intent"}, text : Sentences(IntentWordsEs, MaxIntentWords),
                  language : {"es"}]
            \cup [op : {"detect_intent"}, language : {"en", "es"},
                  text : Sentences(IntentWordsEn \cup IntentWordsEs, MaxIntentWords - 1)]
            \cup [op : {"detect_intent"}, language : {"en"},
                  text : TriggerTexts("en", "milk") \cup {"two apples", "3 eggs"}]
            \cup [op : {"detect_intent"}, language : {"es"},
                  text : TriggerTexts("es", "leche") \cup {"dos manzanas", "3 huevos"}]
    /\ resp = NoResp
    /\ NoTables

DetectIntent ==
    /\ req.op = "detect_intent"
    /\ ~resp.done
    /\ resp' = Value(detect_intent(req.text, req.language))
    /\ served' = served + 1
    /\ UNCHANGED <<items, history, req>>

NextIntent == DetectIntent

SpecIntent == InitIntent /\ [][NextIntent]_vars

\* The predicates of the claims read the text in lower case: lt is lower(text).

\* w stands in lt with no word character on either side
HasWholeWord(lt, w) ==
    \E i \in 1..(Len(lt) - Len(w) + 1) :
        /\ SubSeq(lt, i, i + Len(w) - 1) = w
        /\ (i = 1 \/ ~IsWordCh(Ch(lt, i - 1)))
        /\ (i + Len(w) - 1 = Len(lt) \/ ~IsWordCh(Ch(lt, i + Len(w))))

\* w stands in lt anywhere
HasSubstring(lt, w) ==
    \E i \in 1..(Len(lt) - Len(w) + 1) : SubSeq(lt, i, i + Len(w) - 1) = w

HasStopPhraseL(lt) == \E w \in {"how", "why", "what", "make", "recipe"} : HasSubstring(lt, w)
HasStopPhrase(text) == HasStopPhraseL(lower(text))

Lexicon(language) == IF language = "es" THEN LEXICON_ES ELSE LEXICON_EN

HasTriggerL(lt, words) == \E k \in 1..Len(words) : HasWholeWord(lt, words[k])
HasTrigger(text, words) == HasTriggerL(lower(text), words)

HasNegatedAdd(text, language) == _is_negated_add(strip(lower(text)), language)

\* C3: detect_intent returns invalid for every text with one of the stop phrases
\* how, why, what, make, recipe as a substring, in either language, whatever
\* trigger word or negated-add pattern the text holds besides.
C3_StopPhraseInvalid ==
    (resp.done /\ req.op = "detect_intent" /\ HasStopPhrase(req.text)) =>
        resp.value = "invalid"

\* a stop phrase inside a search trigger ("show" holds "how") next to an add trigger
C3_Witness ==
    /\ resp.done /\ req.op = "detect_intent"
    /\ HasStopPhrase(req.text)
    /\ ~HasWholeWord(req.text, "how")
    /\ HasTrigger(req.text, Lexicon(req.language).search)
    /\ HasTrigger(req.text, Lexicon(req.language).add)
    /\ resp.value = "invalid"

\* C5: without stop phrase and negated-add pattern the trigger lists are tried
\* in the order search, remove, modify, add, and the first list with a whole-word
\* match decides.
C5_TriggerOrder ==
    (/\ resp.done /\ req.op = "detect_intent"
     /\ ~HasStopPhrase(req.text)
     /\ ~HasNegatedAdd(req.text, req.language)) =>
        LET lex == Lexicon(req.language)
            lt == lower(req.text)
            s == HasTriggerL(lt, lex.search)
            r == HasTriggerL(lt, lex.remove)
            m == HasTriggerL(lt, lex.modify)
            a == HasTriggerL(lt, lex.add)
        IN  /\ s => resp.value = "search"
            /\ (~s /\ r) => resp.value = "remove"
            /\ (~s /\ ~r /\ m) => resp.value = "modify"
            /\ (~s /\ ~r /\ ~m /\ a) => resp.value = "add"

\* search, remove and modify triggers in one text: search
C5_Witness ==
    /\ resp.done /\ req.op = "detect_intent"
    /\ ~HasStopPhrase(req.text)
    /\ ~HasNegatedAdd(req.text, req.language)
    /\ HasTrigger(req.text, Lexicon(req.language).search)
    /\ HasTrigger(req.text, Lexicon(req.language).remove)
    /\ HasTrigger(req.text, Lexicon(req.language).modify)
    /\ resp.value = "search"

\* ending at j, lt goes on with white space and then a word character
FollowedByWord(lt, j) ==
    \E k \in (j + 2)..Len(lt) :
        /\ IsWordCh(Ch(lt, k))
        /\ \A m \in (j + 1)..(k - 1) : IsSpace(Ch(lt, m))

\* lt has w as a whole word that is followed by a word
WordThenWord(lt, w) ==
    \E i \in 1..(Len(lt) - Len(w) + 1) :
        /\ SubSeq(lt, i, i + Len(w) - 1) = w
        /\ (i = 1 \/ ~IsWordCh(Ch(lt, i - 1)))
        /\ FollowedByWord(lt, i + Len(w) - 1)

\* lt has a digit token that is followed by a word
DigitsThenWord(lt) ==
    \E i, j \in 1..Len(lt) :
        /\ i <= j
        /\ \A k \in i..j : IsDigit(Ch(lt, k))
        /\ (i = 1 \/ ~IsWordCh(Ch(lt, i - 1)))
        /\ FollowedByWord(lt, j)

\* the number words of the number-word table of the language
NumberWordsOf(language) ==
    LET table == IF language = "es" THEN NUMBER_WORDS_ES ELSE NUMBER_WORDS_EN
    IN  {table[k].w : k \in 1..Len(table)}

\* C26: in either language, a text with no stop phrase, no negated-add pattern
\* and no search, remove or modify trigger, in which a number word of the
\* language or a digit token is followed by a word, is classified add.
C26_QuantityThenWordIsAdd ==
    (/\ resp.done /\ req.op = "detect_intent"
     /\ ~HasStopPhrase(req.text)
     /\ ~HasNegatedAdd(req.text, req.language)
     /\ ~HasTrigger(req.text, Lexicon(req.language).search)
     /\ ~HasTrigger(req.text, Lexicon(req.language).remove)
     /\ ~HasTrigger(req.text, Lexicon(req.language).modify)
     /\ LET lt == strip(lower(req.text))
        IN  \/ DigitsThenWord(lt)
            \/ \E w \in NumberWordsOf(req.language) : WordThenWord(lt, w)) =>
        resp.value = "add"

\* the item words the trigger phrases are tried with
TriggerItem(language) == IF language = "es" THEN "leche" ELSE "milk"

\* C27: in each language, each trigger phrase of each action, followed by one
\* item word, is classified as that action.
C27_EveryTriggerEffective ==
    (resp.done /\ req.op = "detect_intent") =>
        \A a \in {"add", "remove", "modify", "search"} :
            \A k \in 1..Len(TriggersOf(req.language, a)) :
                req.text = TriggersOf(req.language, a)[k] \o " " \o TriggerItem(req.language) =>
                    resp.value = a

(* extract_quantity *)

MaxQuantityWords == 3

QuantityWordsEn == {"2", "0", "03", "two", "One", "apples", "2x", "twofold"}
QuantityWordsEs == {"2", "dos", "Una", "uno", "un", "manzanas"}

InitQuantity ==
    /\ req \in [op : {"extract_quantity"}, text : Sentences(QuantityWordsEn, MaxQuantityWords),
                 language : {"en"}]
            \cup [op : {"extract_quantity"}, text : Sentences(QuantityWordsEs, MaxQuantityWords),
                  language : {"es"}]
            \cup [op : {"extract_quantity"}, language : {"en", "es"},
                  text : Sentences(QuantityWordsEn \cup QuantityWordsEs, MaxQuantityWords - 1)]
    /\ resp = NoResp
    /\ NoTables

ExtractQuantity ==
    /\ req.op = "extract_quantity"
    /\ ~resp.done
    /\ resp' = Value(extract_quantity(req.text, req.language))
    /\ served' = served + 1
    /\ UNCHANGED <<items, history, req>>

NextQuantity == ExtractQuantity

SpecQuantity == InitQuantity /\ [][NextQuantity]_vars

NumberWords(language) == IF language = "es" THEN NUMBER_WORDS_ES ELSE NUMBER_WORDS_EN

\* the table entries whose word stands in lt as a whole word
NumberWordsIn(lt, language) ==
    {k \in 1..Len(NumberWords(language)) : HasWholeWord(lt, NumberWords(language)[k].w)}

\* the bare digit tokens of lt, as <<start, end>>: maximal runs of digits with
\* no word character before or after
BareDigitTokens(lt) ==
    {ij \in (1..Len(lt)) \X (1..Len(lt)) :
        /\ ij[1] <= ij[2]
        /\ \A k \in ij[1]..ij[2] : IsDigit(Ch(lt, k))
        /\ (ij[1] = 1 \/ ~IsWordCh(Ch(lt, ij[1] - 1)))
        /\ (ij[2] = Len(lt) \/ ~IsWordCh(Ch(lt, ij[2] + 1)))}

Least(S) == CHOOSE x \in S : \A y \in S : x <= y

FirstBareDigit(lt) ==
    LET toks == BareDigitTokens(lt)
        ij == CHOOSE t \in toks : \A u \in toks : t[1] <= u[1]
    IN  SubSeq(lt, ij[1], ij[2])

C9_Idempotent ==
    (resp.done /\ req.op = "extract_quantity") =>
        extract_quantity(resp.value.cleaned_text, req.language) =
            [quantity |-> 1, cleaned_text |-> resp.value.cleaned_text]

\* the bare digit tokens of lt as written
DigitTokenTexts(lt) == {SubSeq(lt, ij[1], ij[2]) : ij \in BareDigitTokens(lt)}

\* C9 amended: for every text with at most one distinct bare digit token and at
\* most one distinct number word of the language, extract_quantity on the
\* residual text yields quantity 1 and the same residual text.
C9_IdempotentSingleToken ==
    (/\ resp.done /\ req.op = "extract_quantity"
     /\ Cardinality(DigitTokenTexts(lower(req.text))) <= 1
     /\ Cardinality(NumberWordsIn(lower(req.text), req.language)) <= 1) =>
        extract_quantity(resp.value.cleaned_text, req.language) =
            [quantity |-> 1, cleaned_text |-> resp.value.cleaned_text]

\* one digit token written twice and one number word: both are gone from the residual
C9_Witness ==
    /\ resp.done /\ req.op = "extract_quantity"
    /\ req.text = "2 two 2"
    /\ req.language = "en"
    /\ resp.value = [quantity |-> 2, cleaned_text |-> ""]
    /\ extract_quantity(resp.value.cleaned_text, req.language) = [quantity |-> 1, cleaned_text |-> ""]

(* extract_item *)

MaxItemWords == 3

ItemWordsEn == {"Buy", "2", "bottles", "of", "Water", "2-pack", "the", "grab", "can", "milk!"}
ItemWordsEs == {"Compra", "2", "botellas", "de", "café", "la", "comprar", "leche", "cajas"}

InitItem ==
    /\ req \in [op : {"extract_item"}, text : Sentences(ItemWordsEn, MaxItemWords),
                 language : {"en"}]
            \cup [op : {"extract_item"}, text : Sentences(ItemWordsEs, MaxItemWords),
                  language : {"es"}]
            \cup [op : {"extract_item"}, language : {"en", "es"},
                  text : Sentences(ItemWordsEn \cup ItemWordsEs, MaxItemWords - 1)
                         \cup {"", " ", "Buy\t2  bottles of\nwater ", "2 botellas de la leche", "de la"}]
    /\ resp = NoResp
    /\ NoTables

ExtractItem ==
    /\ req.op = "extract_item"
    /\ ~resp.done
    /\ resp' = Value(extract_item(req.text, req.language))
    /\ served' = served + 1
    /\ UNCHANGED <<items, history, req>>

NextItem == ExtractItem

SpecItem == InitItem /\ [][NextItem]_vars

\* the tokens of an item phrase: its maximal runs of characters that are no whitespace
TokensOf(t) ==
    {SubSeq(t, i, j) : <<i, j>> \in
        {ij \in (1..Len(t)) \X (1..Len(t)) :
            /\ ij[1] <= ij[2]
            /\ \A k \in ij[1]..ij[2] : ~IsSpace(Ch(t, k))
            /\ (ij[1] = 1 \/ IsSpace(Ch(t, ij[1] - 1)))
            /\ (ij[2] = Len(t) \/ IsSpace(Ch(t, ij[2] + 1)))}}

IsDigitString(t) == t # "" /\ \A k \in 1..Len(t) : IsDigit(Ch(t, k))

\* single spaces between the tokens and none at the ends
SingleSpaced(t) ==
    /\ \A k \in 1..Len(t) : IsSpace(Ch(t, k)) => Ch(t, k) = " "
    /\ t # "" => (Ch(t, 1) # " " /\ Ch(t, Len(t)) # " ")
    /\ \A k \in 1..(Len(t) - 1) : ~(Ch(t, k) = " " /\ Ch(t, k + 1) = " ")

StopWords(language) == IF language = "es" THEN stopwords_es ELSE stopwords_en

\* C12: the item phrase of extract_item is lower-case, has single spaces between
\* its tokens and none at the ends, and has no token that is a bare digit string,
\* a container word of either language, the connector of/de, or a stop word of
\* the language.
C12_ItemPhraseClean ==
    (resp.done /\ req.op = "extract_item") =>
        /\ resp.value = lower(resp.value)
        /\ SingleSpaced(resp.value)
        /\ \A tok \in TokensOf(resp.value) :
              /\ ~IsDigitString(tok)
              /\ tok \notin Range(CONTAINERS_EN) \cup Range(CONTAINERS_ES)
              /\ tok \notin Range(CONNECTORS)
              /\ tok \notin StopWords(req.language)

\* a Spanish text with a quantity, a container, the connector and an article
C12_Witness ==
    /\ resp.done /\ req.op = "extract_item"
    /\ req.text = "2 botellas de la leche"
    /\ req.language = "es"
    /\ resp.value = "leche"

\* every word of every trigger phrase of the language's ActionLexicon
TriggerWords(language) ==
    LET lex == Lexicon(language)
    IN  UNION {WordsOf(w) : w \in Range(lex.add) \cup Range(lex.remove)
                                 \cup Range(lex.modify) \cup Range(lex.search)}

\* C13: no word of an add, remove, modify or search trigger phrase of the
\* language's ActionLexicon is a token of the item phrase extract_item returns.
C13_NoTriggerLeak ==
    (resp.done /\ req.op = "extract_item") =>
        \A tok \in TokensOf(resp.value) : tok \notin TriggerWords(req.language)

(* categorize_item *)

MaxCategoryWords == 2

CategoryWords == {"Milk", "tea", "steak", "red", "apples", "bread", "butter", "rice",
                  "Soda", "chips", "crackers", "pan"}

InitCategory ==
    /\ req \in [op : {"categorize_item"},
                 item : Sentences(CategoryWords, MaxCategoryWords)
                        \cup {"", " ", "peanut butter cookies", "buttermilk pancakes"}]
    /\ resp = NoResp
    /\ NoTables

CategorizeItem ==
    /\ req.op = "categorize_item"
    /\ ~resp.done
    /\ resp' = Value(categorize_item(req.item))
    /\ served' = served + 1
    /\ UNCHANGED <<items, history, req>>

NextCategory == CategorizeItem

SpecCategory == InitCategory /\ [][NextCategory]_vars

\* the categories in the order they are declared
CategoryOrder == <<"dairy", "produce", "snacks", "beverages", "bakery", "pantry">>

KeywordsOf(cat) ==
    UNION {CATEGORY_KEYWORDS[i].words : i \in {j \in 1..Len(CATEGORY_KEYWORDS) :
                                                  CATEGORY_KEYWORDS[j].cat = cat}}

\* the positions in CategoryOrder of the categories with a keyword inside the
\* lower-cased phrase
MatchingCategories(item) ==
    {i \in 1..Len(CategoryOrder) :
        \E w \in KeywordsOf(CategoryOrder[i]) : HasSubstring(lower(item), w)}

\* C14: categorize_item returns other for the empty phrase; otherwise the first
\* category in declaration order with a keyword that is a substring of the
\* lower-cased phrase, and other when no category has one.
C14_FirstCategoryWins ==
    (resp.done /\ req.op = "categorize_item") =>
        resp.value = IF req.item = "" \/ MatchingCategories(req.item) = {} THEN "other"
                     ELSE CategoryOrder[Least(MatchingCategories(req.item))]

\* "tea" of beverages stands inside "steak", "bread" is of bakery: the phrase
\* matches two categories and gets the one declared first
C14_Witness ==
    /\ resp.done /\ req.op = "categorize_item"
    /\ req.item = "bread steak"
    /\ MatchingCategories(req.item) = {4, 5}
    /\ resp.value = "beverages"

(* extract_filters *)

MaxFilterWords == 2

FilterWords == {"find", "Amul", "colgate", "brand", "nestle", "de", "milk", "pequeño",
                "chico", "Large", "500", "ml", "1", "l", "2kg", "1.5kg"}

InitFilters ==
    /\ req \in [op : {"extract_filters"}, text : Sentences(FilterWords, MaxFilterWords),
                 brands : BrandOrders]
    /\ resp = NoResp
    /\ NoTables

ExtractFilters ==
    /\ req.op = "extract_filters"
    /\ ~resp.done
    /\ resp' = Value(extract_filters(req.text, req.brands))
    /\ served' = served + 1
    /\ UNCHANGED <<items, history, req>>

NextFilters == ExtractFilters

SpecFilters == InitFilters /\ [][NextFilters]_vars

\* the positions in the catalog of the products whose brand is a whole word of lt
CatalogMatches(lt) ==
    {i \in 1..Len(MOCK_PRODUCTS) :
        MOCK_PRODUCTS[i].brand # "" /\ HasWholeWord(lt, lower(MOCK_PRODUCTS[i].brand))}

\* C15: brand extraction is two-pass: when a catalog brand is a whole word of
\* the text the brand is the first such brand in catalog order, title-cased,
\* whatever brand/from/marca/de pattern the text has; otherwise it is the
\* title-cased word after brand/from/marca/de, or "" when there is none.
C15_BrandTwoPass ==
    (resp.done /\ req.op = "extract_filters") =>
        LET lt == lower(req.text)
        IN  resp.value.brand =
               IF CatalogMatches(lt) # {}
               THEN title(lower(MOCK_PRODUCTS[Least(CatalogMatches(lt))].brand))
               ELSE title(BrandSearchFrom(lt, 1))

\* the size-keyword table as the specification has it
SizeTable ==
    {<<"small", "small">>, <<"pequeño", "small">>, <<"chico", "small">>,
     <<"medium", "medium">>, <<"mediano", "medium">>, <<"large", "large">>,
     <<"grande", "large">>, <<"500ml", "500ml">>, <<"1l", "1L">>, <<"1 l", "1L">>,
     <<"2kg", "2kg">>, <<"2 kg", "2kg">>, <<"1kg", "1kg">>}

\* C16: a text with a keyword of the size table as a whole word, the localized
\* pequeño and chico included, gets the size value of such a keyword; only a
\* text with none gets the number-plus-unit match with its blanks removed, or
\* "" when there is none either.
C16_SizeTableFirst ==
    (resp.done /\ req.op = "extract_filters") =>
        LET lt == lower(req.text)
            found == {kv \in SizeTable : HasWholeWord(lt, kv[1])}
        IN  IF found # {} THEN resp.value.size \in {kv[2] : kv \in found}
            ELSE resp.value.size = RemoveBlanks(SizeSearchFrom(lt, 1))

(* parse_voice_command *)

MaxParseWords == 3

ParseWords == {"find", "milk", "cheaper than", "under", "4", "2.50", "two", "dollars", "hasta"}

\* the texts sent while the external parser is configured
ExternalTexts == {"Add milk", "find 2 apples"}

BrandTexts == {"amul milk", "find colgate or Amul", "brand dairypure milk under 3",
               "find large amul milk", "find milk 500 ml"}

\* quantities an external reply may carry
ExtQuantities == {-1, 0, 2}

NoReply ==
    [json |-> "invalid",
     data |-> [action |-> "", item |-> "", quantity |-> 0, qtype |-> "int", category |-> ""]]

FirstBrandOrder == CHOOSE o \in BrandOrders : TRUE

\* the external parser not configured
EnvsOff(orders) ==
    {e \in [api_key : BOOLEAN, enable : BOOLEAN, fault : {"none"}, reply : {NoReply},
            brands : orders] : ~(e.api_key /\ e.enable)}

\* configured, and failing before a reply is read
EnvsFault ==
    [api_key : {TRUE}, enable : {TRUE}, fault : {"import", "client", "network", "choices"},
     reply : {NoReply}, brands : {FirstBrandOrder}]

\* configured, with a reply
EnvsReply ==
    [api_key : {TRUE}, enable : {TRUE}, fault : {"none"}, brands : {FirstBrandOrder},
     reply : [json : {"invalid", "array", "scalar"}, data : {NoReply.data}]
             \cup [json : {"object"},
                   data : [action : {"add", "remove", "search", "buy"}, item : {"milk"},
                           quantity : ExtQuantities, qtype : {"int", "text"},
                           category : {"", "dairy"}]]]

EnvOff == CHOOSE e \in EnvsOff({FirstBrandOrder}) : ~e.api_key /\ ~e.enable

ParseEnvs == EnvsOff({FirstBrandOrder}) \cup EnvsFault \cup EnvsReply

InitParse ==
    /\ req \in [op : {"parse_voice_command"}, text : Sentences(ParseWords, MaxParseWords),
                 hint : {None_}, env : {EnvOff}]
            \cup [op : {"parse_voice_command"}, text : ExternalTexts,
                  hint : {None_, Some("es")}, env : ParseEnvs]
            \cup [op : {"parse_voice_command"}, text : BrandTexts,
                  hint : {None_}, env : EnvsOff(BrandOrders)]
    /\ resp = NoResp
    /\ NoTables

ParseVoiceCommand ==
    /\ req.op = "parse_voice_command"
    /\ ~resp.done
    /\ resp' = Value(parse_voice_command(req.text, req.hint, req.env))
    /\ served' = served + 1
    /\ UNCHANGED <<items, history, req>>

NextParse == ParseVoiceCommand

SpecParse == InitParse /\ [][NextParse]_vars

\* the external parser is configured for the call
ExternalEnabled(env) == env.api_key /\ env.enable

\* the external parser hands back a Command: a JSON object that passes the schema
ExternalYields(env) ==
    /\ ExternalEnabled(env)
    /\ env.fault = "none"
    /\ env.reply.json = "object"
    /\ env.reply.data.action \in Action
    /\ env.reply.data.qtype = "int"

\* C1: every Command parse_voice_command returns, rule-based or from the
\* external parser, has quantity >= 1 and one of the five actions.
C1_QuantityAndAction ==
    (resp.done /\ req.op = "parse_voice_command" /\ resp.value.some) =>
        /\ resp.value.cmd.quantity >= 1
        /\ resp.value.cmd.action \in Action

\* C2: parse_voice_command never raises; when the external parser is enabled
\* and yields no Command, the Command of the rule-based pipeline is returned.
C2_NeverRaises ==
    (resp.done /\ req.op = "parse_voice_command") =>
        /\ resp.value.exc = ""
        /\ (ExternalEnabled(req.env) /\ ~ExternalYields(req.env)) =>
               /\ resp.value.some
               /\ resp.value.cmd = rule_based_command(req.text,
                                        detect_language(req.text, req.hint), req.env.brands)

\* C10: the price_max of a Command built by the rule-based pipeline is the price
\* ceiling read from the original text, also when the price digit is the token
\* extract_quantity takes as quantity and strips.
C10_PriceBeforeQuantity ==
    (/\ resp.done /\ req.op = "parse_voice_command"
     /\ resp.value.some /\ ~ExternalYields(req.env)) =>
        resp.value.cmd.filters.price_max = _extract_price_max(req.text)

\* the price digit 4 is the quantity too, and is gone from the residual text
C10_Witness ==
    /\ resp.done /\ req.op = "parse_voice_command"
    /\ ~ExternalYields(req.env)
    /\ req.text = "cheaper than 4 dollars"
    /\ resp.value.cmd.quantity = 4
    /\ extract_quantity(req.text, resp.value.cmd.language).cleaned_text = "cheaper than dollars"
    /\ resp.value.cmd.filters.price_max = 400

\* C11: the filters of a Command built by the rule-based pipeline are the
\* result of extract_filters on the original text in all three fields: brand,
\* size and price_max.
C11_FiltersAllFields ==
    (/\ resp.done /\ req.op = "parse_voice_command"
     /\ resp.value.some /\ ~ExternalYields(req.env)) =>
        resp.value.cmd.filters = extract_filters(req.text, req.env.brands)

(* SearchService.search and POST /search *)

MaxSearchWords == 2

SearchWords == {"milk", "Sugar", "mlk", "amul"}

SearchBrands == {"", "Amul", "pure", "nestle"}
SearchSizes == {"", "1l"}
SearchPrices == {0, 200, 400}

SearchVoiceTexts == {"", " ", "find milk under 4", "Search sugar under 2", "find sugar",
                     "add milk", "find amul milk under 2"}

\* the settings of the external parser the endpoint is served under
SearchEnvs ==
    {EnvOff}
    \cup {e \in EnvsFault : e.fault = "client"}
    \cup {e \in EnvsReply :
             /\ e.reply.json = "object"
             /\ e.reply.data = [action |-> "search", item |-> "milk", quantity |-> 2,
                                qtype |-> "int", category |-> "dairy"]}

\* what parse_voice_command(req.voice_text) comes to for each voice text and setting
SearchParses ==
    {<<t, e, parse_voice_command(t, None_, e)>> :
        t \in {v \in SearchVoiceTexts : strip(v) # ""}, e \in SearchEnvs}

SearchParse(t, e) ==
    IF strip(t) = "" THEN ReturnedNone
    ELSE (CHOOSE tp \in SearchParses : tp[1] = t /\ tp[2] = e)[3]

InitSearch ==
    /\ req \in [op : {"SearchService.search"},
                 query : {""} \cup Sentences(SearchWords, MaxSearchWords),
                 filters : [brand : SearchBrands, size : SearchSizes,
                            price_max : SearchPrices]]
               \cup [op : {"search"},
                     query_text : {"", " milk "} \cup Sentences(SearchWords, MaxSearchWords),
                     voice_text : SearchVoiceTexts, brand : {"", "Amul"},
                     price_max : SearchPrices, env : SearchEnvs]
    /\ resp = NoResp
    /\ NoTables

SearchServiceSearch ==
    /\ req.op = "SearchService.search"
    /\ ~resp.done
    /\ resp' = Value(SearchService_search(req.query, req.filters))
    /\ served' = served + 1
    /\ UNCHANGED <<items, history, req>>

SearchEndpoint ==
    /\ req.op = "search"
    /\ ~resp.done
    /\ resp' = search(req.query_text, req.voice_text, req.brand, req.price_max,
                      SearchParse(req.voice_text, req.env))
    /\ served' = served + 1
    /\ UNCHANGED <<items, history, req>>

NextSearch == SearchServiceSearch \/ SearchEndpoint

SpecSearch == InitSearch /\ [][NextSearch]_vars

\* C22: with a price_max above 0 every result of SearchService.search and of
\* POST /search, substitutes included, has a price of price_max or less; with
\* a brand filter every product SearchService.search returns has a brand that
\* contains it.
C22_PriceAndBrandFiltersHold ==
    /\ (resp.done /\ req.op = "SearchService.search") =>
          /\ req.filters.price_max > 0 =>
                \A i \in 1..Len(resp.value) : resp.value[i].price <= req.filters.price_max
          /\ req.filters.brand # "" =>
                \A i \in 1..Len(resp.value) :
                    Contains(lower(resp.value[i].brand), lower(req.filters.brand))
    /\ (resp.done /\ req.op = "search" /\ resp.status = 200
        /\ resp.filters.price_max > 0) =>
          \A i \in 1..Len(resp.results) : resp.results[i].price <= resp.filters.price_max

C22_Witness ==
    /\ resp.done /\ req.op = "search"
    /\ req.voice_text = "find milk under 4"
    /\ resp.filters.price_max = 400
    /\ Len(resp.results) = 1
    /\ resp.results[1].name = "Amul Milk"

\* the query matches no product of the catalog, by substring or by fuzzy match
NoCatalogMatch(query) ==
    /\ \A i \in 1..Len(MOCK_PRODUCTS) : ~Contains(lower(MOCK_PRODUCTS[i].name), lower(query))
    /\ fuzzy_match_item(lower(query), ProductNames(MOCK_PRODUCTS), 50) = {}

\* C23: when the searched item matches no product of the catalog, POST /search
\* returns the substitutes of the query and no catalog product.
C23_SubstitutesWhenNoMatch ==
    (/\ resp.done /\ req.op = "search" /\ resp.status = 200
     /\ resp.query # "" /\ NoCatalogMatch(resp.query)) =>
        LET subs == get_substitutes_for_query(resp.query, 5)
        IN  resp.results = [i \in 1..Len(subs) |-> [name |-> subs[i], brand |-> "", price |-> 0]]

(* The backend: the tables of one database and the requests served on it   *)

MaxRequests == 3

\* the bodies sent to POST /process-voice
VoiceRequests ==
    [text : {"", "Add 2 milk", "add milk", "don't add milk", "Do not add 2 milk",
             "dont add how", "remove milk", "change milk 3", "find milk under 4",
             "hello there", "2 apples", "dos manzanas", "add", "Add 100 milk",
             "Add 101 milk", "add 3 bread", "Remove 2 milk"},
     language : {None_}, env : {EnvOff}]
    \cup [text : {"no agregues leche", "No agregue 2 leche", "agrega leche", "leche fresca"},
          language : {Some("es")}, env : {EnvOff}]
    \cup [text : {"don't add milk", "hello there"}, language : {None_},
          env : {e \in EnvsFault \cup EnvsReply :
                    /\ e.fault \in {"none", "client"}
                    /\ e.reply.json \in {"invalid", "object"}
                    /\ e.reply.json = "object" =>
                          /\ e.reply.data.action \in {"add", "invalid"}
                          /\ e.reply.data.quantity \in {0, 2}
                          /\ e.reply.data.qtype = "int"
                          /\ e.reply.data.category = "dairy"}]
    \cup [text : {"remove milk"}, language : {None_},
          env : {e \in EnvsReply :
                    /\ e.reply.json = "object"
                    /\ e.reply.data.action = "remove"
                    /\ e.reply.data.quantity \in {0, 2}
                    /\ e.reply.data.qtype = "int"
                    /\ e.reply.data.category = "dairy"}]

\* what the call of parse_voice_command on the first line of the handler comes to,
\* for each of these bodies
VoiceParses ==
    {<<r, parse_voice_command(r.text, r.language, r.env)>> :
        r \in {q \in VoiceRequests : Len(q.text) >= 1}}

VoiceParse(r) == (CHOOSE rp \in VoiceParses : rp[1] = r)[2]

ModifyItems == {"", " ", "Milk", "water"}
ModifyQuantities == {0, 3, 101}

Init ==
    /\ items = <<>>
    /\ history = {}
    /\ req = [op |-> "none"]
    /\ resp = NoResp
    /\ served = 0

\* POST /process-voice: VoiceRequest wants a text of 1 to 500 characters
ProcessVoice ==
    /\ served < MaxRequests
    /\ \E r \in VoiceRequests :
          /\ req' = [op |-> "process_voice", text |-> r.text, language |-> r.language,
                      env |-> r.env]
          /\ IF Len(r.text) < 1
             THEN /\ resp' = request_validation_exception_handler
                  /\ UNCHANGED <<items, history>>
             ELSE \E out \in {process_voice(items, history, VoiceParse(r))} :
                       /\ resp' = out.resp
                       /\ items' = out.rows
                       /\ history' = out.hist
    /\ served' = served + 1

\* POST /modify-item: ModifyItemRequest wants an item of 1 to 120 characters and
\* a quantity of 1 to 100
ModifyItem ==
    /\ served < MaxRequests
    /\ \E item \in ModifyItems, quantity \in ModifyQuantities :
          /\ req' = [op |-> "modify_item", item |-> item, quantity |-> quantity]
          /\ IF Len(item) < 1 \/ quantity < 1 \/ quantity > 100
             THEN /\ resp' = request_validation_exception_handler
                  /\ UNCHANGED items
             ELSE \E out \in {modify_item(items, item, quantity)} :
                    /\ resp' = out.resp
                    /\ items' = out.rows
    /\ served' = served + 1
    /\ UNCHANGED history

DeleteItem ==
    /\ served < MaxRequests
    /\ \E id \in 1..MaxRequests :
          /\ req' = [op |-> "delete_item", id |-> id]
          /\ \E out \in {delete_item(items, id)} :
                /\ resp' = out.resp
                /\ items' = out.rows
    /\ served' = served + 1
    /\ UNCHANGED history

\* GET /items
GetItems ==
    /\ served < MaxRequests
    /\ req' = [op |-> "get_items"]
    /\ resp' = get_items(items)
    /\ served' = served + 1
    /\ UNCHANGED <<items, history>>

\* the backend is stopped and started again on the same database: _startup
\* runs init_db; cleared is the number of rows the delete met
Restart ==
    /\ req' = [op |-> "restart", cleared |-> Len(items)]
    /\ resp' = NoResp
    /\ \E out \in {init_db(items, history)} :
          /\ items' = out.rows
          /\ history' = out.hist
    /\ UNCHANGED served

Next == ProcessVoice \/ ModifyItem \/ DeleteItem \/ GetItems \/ Restart

Spec == Init /\ [][Next]_vars

\* a step that serves a POST /process-voice whose body passed VoiceRequest
VoiceStep ==
    /\ served' = served + 1
    /\ req'.op = "process_voice"
    /\ Len(req'.text) >= 1

\* the language parse_voice_command works with
LanguageOf(r) == detect_language(r.text, r.language)

\* the outcome of parse_voice_command for the body of a request served
ParsedOf(q) == VoiceParse([text |-> q.text, language |-> q.language, env |-> q.env])

\* a step that serves a POST /process-voice whose Command has the given action
VoiceCommandStep(action) ==
    /\ VoiceStep
    /\ ParsedOf(req').exc = ""
    /\ ParsedOf(req').cmd.action = action

\* the quantity the list holds of the item of that name, 0 when it has no such row
QuantityOf(rows, name) ==
    IF RowOf(rows, name) = 0 THEN 0 ELSE rows[RowOf(rows, name)].quantity

\* the rows of the list under other names
OtherRows(rows, name) == SelectSeq(rows, LAMBDA row : row.name # name)

\* /process-voice turned the quantity down: no success, the message of the
\* quantity limits, the list as before
QuantityRejected ==
    /\ ~resp'.success
    /\ resp'.message = "Quantity must be between 1 and 100"
    /\ items' = items

\* C17 as stated: a voice add succeeds for a parsed quantity from 1 to 100; one
\* with a parsed quantity above 100 is rejected with the message 'Quantity must
\* be between 1 and 100' and leaves the shopping list as it was.
C17_VoiceAddQuantityLimits ==
    [][VoiceCommandStep("add") =>
        LET parsed == ParsedOf(req').cmd
        IN  /\ parsed.quantity \in 1..100 => resp'.success
            /\ parsed.quantity > 100 => QuantityRejected]_vars

\* C17 amended: a voice add that names an item succeeds for a parsed quantity
\* from 1 to 100, the list then holding that many more of the item and nothing
\* else changed; a voice add with a parsed quantity above 100 is rejected with
\* the message 'Quantity must be between 1 and 100' and leaves the list as it was.
C17_VoiceAddNamedItem ==
    [][VoiceCommandStep("add") =>
        LET parsed == ParsedOf(req').cmd
            norm == lower(strip(parsed.item))
        IN  /\ (parsed.quantity \in 1..100 /\ norm # "") =>
                  /\ resp'.success
                  /\ QuantityOf(items', norm) = QuantityOf(items, norm) + parsed.quantity
                  /\ OtherRows(items', norm) = OtherRows(items, norm)
                  /\ resp'.items = items'
            /\ parsed.quantity > 100 => QuantityRejected]_vars

\* "Add 101 milk" turned down on a list that an earlier "Add 100 milk" put the
\* milk on
C17_Witness ==
    /\ resp.done /\ req.op = "process_voice"
    /\ req.text = "Add 101 milk"
    /\ ParsedOf(req).cmd.quantity = 101
    /\ ~resp.success
    /\ resp.error_code = "VALIDATION_ERROR"
    /\ resp.message = "Quantity must be between 1 and 100"
    /\ Len(items) = 1 /\ items[1].name = "milk" /\ items[1].quantity = 100

\* C18: a voice remove of quantity q for an item the list holds n of leaves the
\* item with quantity n - q when n > q and deletes it when n <= q; no other item
\* of the list is changed.
C18_VoiceRemoveDecreases ==
    [][(/\ VoiceCommandStep("remove")
        /\ RowOf(items, lower(strip(ParsedOf(req').cmd.item))) # 0) =>
        LET parsed == ParsedOf(req').cmd
            norm == lower(strip(parsed.item))
            n == QuantityOf(items, norm)
        IN  /\ n > parsed.quantity =>
                  /\ RowOf(items', norm) # 0
                  /\ QuantityOf(items', norm) = n - parsed.quantity
            /\ n <= parsed.quantity => RowOf(items', norm) = 0
            /\ OtherRows(items', norm) = OtherRows(items, norm)]_vars

\* a step that serves a POST /modify-item
ModifyStep ==
    /\ served' = served + 1
    /\ req'.op = "modify_item"

\* C19: POST /modify-item with quantity 0 for an item of the list deletes the
\* item and returns the updated list; with a quantity from 1 to 100 it sets the
\* quantity of the item to exactly that value.
C19_ModifyItemSetsOrDeletes ==
    [][(ModifyStep /\ RowOf(items, lower(strip(req'.item))) # 0) =>
        LET norm == lower(strip(req'.item))
        IN  /\ req'.quantity = 0 =>
                  /\ RowOf(items', norm) = 0
                  /\ OtherRows(items', norm) = OtherRows(items, norm)
                  /\ resp'.status = 200
                  /\ resp'.items = items'
            /\ req'.quantity \in 1..100 =>
                  /\ RowOf(items', norm) # 0
                  /\ QuantityOf(items', norm) = req'.quantity]_vars

\* C20: POST /modify-item naming an item that is not in the list returns 404
\* with a 'not found' detail and leaves the list as it was; with a quantity
\* above 100 it returns 400 and leaves the list as it was.
C20_ModifyItemNotFound ==
    [][(/\ ModifyStep
        /\ lower(strip(req'.item)) # ""
        /\ RowOf(items, lower(strip(req'.item))) = 0) =>
        /\ req'.quantity <= 100 =>
              /\ resp'.status = 404
              /\ HasSubstring(resp'.message, "not found")
        /\ req'.quantity > 100 => resp'.status = 400
        /\ items' = items]_vars

\* C21: a restart of the backend empties the shopping list and keeps every row
\* of the user history with its counts: GET /items right after it returns the
\* empty list, and the history is as it was before the restart.
C21_RestartClearsListKeepsHistory ==
    [][/\ req'.op = "restart" => (items' = <<>> /\ history' = history)
       /\ (req.op = "restart" /\ req'.op = "get_items") =>
              (resp'.status = 200 /\ resp'.items = <<>>)]_vars

\* a restart that met a row on the list, with milk bought twice in the history
C21_Witness ==
    /\ req.op = "restart"
    /\ req.cleared >= 1
    /\ items = <<>>
    /\ [item_name |-> "milk", purchase_count |-> 2, search_count |-> 0] \in history

NoTriggerNoQuantity(text, language) ==
    LET lt == lower(text)
        lex == Lexicon(language)
    IN  /\ ~HasTriggerL(lt, lex.search)
        /\ ~HasTriggerL(lt, lex.remove)
        /\ ~HasTriggerL(lt, lex.modify)
        /\ ~HasTriggerL(lt, lex.add)
        /\ ~quantity_noun_pattern(strip(lt))

\* /process-voice on a Command with action invalid: success false, error code
\* INVALID_COMMAND, list and history as before
InvalidRejected ==
    resp'.parsed.action = "invalid" =>
        /\ resp'.success = FALSE
        /\ resp'.error_code = "INVALID_COMMAND"
        /\ items' = items
        /\ history' = history

\* C6 as stated: a text that matches no trigger list and no quantity-plus-word
\* pattern is classified invalid, and /process-voice on an invalid Command
\* answers success=false, INVALID_COMMAND and changes neither list nor history.
C6_UnrecognizedInvalid ==
    [][VoiceStep =>
        /\ NoTriggerNoQuantity(req'.text, LanguageOf(req')) =>
               detect_intent(req'.text, LanguageOf(req')) = "invalid"
        /\ InvalidRejected]_vars

\* C6 amended: a text that matches no trigger list, no quantity-plus-word
\* pattern and no negated-add pattern is classified invalid, and /process-voice
\* on an invalid Command answers success=false, INVALID_COMMAND and changes
\* neither list nor history.
C6_UnrecognizedInvalidNoNegation ==
    [][VoiceStep =>
        /\ (/\ NoTriggerNoQuantity(req'.text, LanguageOf(req'))
            /\ ~HasNegatedAdd(req'.text, LanguageOf(req'))) =>
               detect_intent(req'.text, LanguageOf(req')) = "invalid"
        /\ InvalidRejected]_vars

\* "hello there" served after an add: rejected, the list and the history kept
C6_Witness ==
    /\ resp.done /\ req.op = "process_voice"
    /\ req.text = "hello there"
    /\ ~ExternalEnabled(req.env)
    /\ NoTriggerNoQuantity(req.text, LanguageOf(req))
    /\ resp.parsed.action = "invalid"
    /\ ~resp.success /\ resp.error_code = "INVALID_COMMAND"
    /\ items # <<>> /\ history # {}

\* C28: after any sequence of /process-voice and /modify-item requests every
\* item of the shopping list has a quantity from 1 to 100.
C28_QuantityWithinLimits ==
    \A i \in 1..Len(items) : items[i].quantity >= 1 /\ items[i].quantity <= 100

\* a step that serves a voice add whose quantity _upsert_item rejects
RejectedAddStep ==
    /\ VoiceCommandStep("add")
    /\ (ParsedOf(req').cmd.quantity < 1 \/ ParsedOf(req').cmd.quantity > 100)

\* C30: a voice add that is rejected for its quantity changes neither the
\* shopping list nor the user history.
C30_RejectedAddKeepsHistory ==
    [][RejectedAddStep => (items' = items /\ history' = history)]_vars

(* The history-based suggestions of POST /process-voice and GET /recommendations *)

MaxHistoryRequests == 2

HistoryItems == {"milk", "bread", "eggs", "water"}

\* <<purchase_count, search_count>> of an item in the history the backend starts with
HistoryCounts == {<<0, 0>>, <<1, 0>>, <<0, 2>>, <<1, 1>>}

HistoryRequests ==
    {r \in VoiceRequests :
        /\ r.env = EnvOff
        /\ r.text \in {"add milk", "Add 101 milk", "add 3 bread", "find milk under 4",
                       "remove milk", "hello there"}}

\* user_history outlives a restart and the list does not
InitHistory ==
    /\ items = <<>>
    /\ \E c \in [HistoryItems -> HistoryCounts] :
          history = {[item_name |-> i, purchase_count |-> c[i][1], search_count |-> c[i][2]] :
                        i \in {j \in HistoryItems : c[j] # <<0, 0>>}}
    /\ req = [op |-> "none"]
    /\ resp = NoResp
    /\ served = 0

\* POST /process-voice with the suggestions of its response: build_suggestions
\* runs after the list and the history are written, unless the handler
\* returned early or answered an exception
HistoryVoice ==
    /\ served < MaxHistoryRequests
    /\ \E r \in HistoryRequests :
          /\ req' = [op |-> "process_voice", text |-> r.text, language |-> r.language,
                      env |-> r.env]
          /\ \E out \in {process_voice(items, history, VoiceParse(r))} :
                /\ items' = out.rows
                /\ history' = out.hist
                /\ \E previous \in
                       (IF out.resp.error_code \in {"INVALID_COMMAND", "INTERNAL_ERROR"}
                        THEN {<<>>} ELSE get_history_based(out.hist)) :
                      resp' = [done |-> TRUE, status |-> 200, success |-> out.resp.success,
                               error_code |-> out.resp.error_code, previous |-> previous]
    /\ served' = served + 1

GetRecommendations ==
    /\ served < MaxHistoryRequests
    /\ req' = [op |-> "get_recommendations"]
    /\ resp' \in get_recommendations(items, history)
    /\ served' = served + 1
    /\ UNCHANGED <<items, history>>

NextHistory == HistoryVoice \/ GetRecommendations

SpecHistory == InitHistory /\ [][NextHistory]_vars

\* purchase_count + search_count and purchase_count * 2 + search_count of the
\* history row of an item, 0 without a row
InteractionsOf(hist, name) ==
    IF \E r \in hist : r.item_name = name
    THEN LET r == CHOOSE h \in hist : h.item_name = name
         IN  r.purchase_count + r.search_count
    ELSE 0

ScoreOf(hist, name) ==
    IF \E r \in hist : r.item_name = name
    THEN LET r == CHOOSE h \in hist : h.item_name = name
         IN  r.purchase_count * 2 + r.search_count
    ELSE 0

MaxPureWords == 1

PureWords == {"add", "milk", "find", "leche"}

PureTexts == Sentences(PureWords, MaxPureWords)
                 \cup {"Add 2 milk", "find amul colgate milk", "agrega leche"}

\* what a call can meet outside its arguments: the iteration order of the set
\* of catalog brands in its process, the two environment variables, and what
\* the external parser does
PureEnvs ==
    EnvsOff(BrandOrders)
    \cup {e \in EnvsFault : e.fault \in {"network", "client"}}
    \cup {e \in EnvsReply :
             /\ e.reply.json \in {"invalid", "object"}
             /\ e.reply.json = "object" =>
                   /\ e.reply.data.action \in {"add", "search"}
                   /\ e.reply.data.quantity = 2
                   /\ e.reply.data.qtype = "int"
                   /\ e.reply.data.category = "dairy"}

InitPure ==
    /\ req \in [op : {"parse_voice_command twice"}, text : PureTexts,
                 hint : {None_, Some("es")}, env : PureEnvs]
    /\ resp = NoResp
    /\ NoTables

\* the first call, under the settings req.env
FirstCall ==
    /\ req.op = "parse_voice_command twice"
    /\ served = 0
    /\ resp' = [done |-> FALSE, first |-> parse_voice_command(req.text, req.hint, req.env)]
    /\ served' = 1
    /\ UNCHANGED <<items, history, req>>

\* the second call, with the same arguments and the same two environment
\* variables, in the same process or after a restart
SecondCall ==
    /\ req.op = "parse_voice_command twice"
    /\ served = 1
    /\ \E e \in PureEnvs :
          /\ e.api_key = req.env.api_key
          /\ e.enable = req.env.enable
          /\ resp' = [done |-> TRUE, first |-> resp.first,
                      second |-> parse_voice_command(req.text, req.hint, e)]
    /\ served' = 2
    /\ UNCHANGED <<items, history, req>>

NextPure == FirstCall \/ SecondCall

SpecPure == InitPure /\ [][NextPure]_vars

\* C25: the Command parse_voice_command returns depends only on the text and
\* the language hint: two calls with the same arguments return equal Commands.
C25_ParseDependsOnArgumentsOnly ==
    (resp.done /\ req.op = "parse_voice_command twice") => resp.second = resp.first

(* Concurrent voice adds of one item: each request runs the handler in a   *)
(* thread of its own, on a session of its own (get_db), and the statements *)
(* of the requests interleave                                              *)

MaxClients == 2

Clients == 1..MaxClients

\* the quantities of the Commands "add milk" and "Add 2 milk"
RaceQuantities == {1, 2}

RaceItem == "milk"
RaceCategory == "dairy"

RaceRow(q) == NewItem(1, RaceItem, q, RaceCategory, BestMatchLoop(RaceItem, 1, 0))
RaceHistory(p) == [item_name |-> RaceItem, purchase_count |-> p, search_count |-> 0]

Idle == [pc |-> "idle", quantity |-> 0, seen |-> 0, hseen |-> 0]

\* a fresh database, a restarted backend with history, or milk in the list
InitRace ==
    /\ \E t \in {<<<<>>, {}>>, <<<<>>, {RaceHistory(1)}>>, <<<<RaceRow(1)>>, {RaceHistory(1)}>>} :
          /\ items = t[1]
          /\ history = t[2]
          /\ req = [before |-> QuantityOf(t[1], RaceItem), client |-> [c \in Clients |-> Idle]]
    /\ resp = [c \in Clients |-> ""]
    /\ served = 0

At(c, pc) == req.client[c].pc = pc

Goto(c, pc) == req' = [req EXCEPT !.client[c].pc = pc]

\* POST /process-voice arrives and is parsed as an add of milk
Receive(c) ==
    /\ At(c, "idle")
    /\ \E q \in RaceQuantities :
          req' = [req EXCEPT !.client[c] = [Idle EXCEPT !.pc = "select", !.quantity = q]]
    /\ UNCHANGED <<items, history, resp, served>>

\* _upsert_item: existing = db.execute(select(...)).scalar_one_or_none()
SelectExisting(c) ==
    /\ At(c, "select")
    /\ LET k == RowOf(items, RaceItem)
       IN  req' = [req EXCEPT !.client[c].pc = IF k > 0 THEN "update" ELSE "insert",
                              !.client[c].seen = IF k > 0 THEN items[k].quantity ELSE 0]
    /\ UNCHANGED <<items, history, resp, served>>

\* existing.quantity += max(1, quantity); db.commit(): the session writes the
\* sum it computed from the quantity it read
CommitUpdate(c) ==
    /\ At(c, "update")
    /\ LET k == RowOf(items, RaceItem)
       IN  items' = [items EXCEPT ![k].quantity = req.client[c].seen + Max(1, req.client[c].quantity),
                                  ![k].category = RaceCategory]
    /\ Goto(c, "touch")
    /\ UNCHANGED <<history, resp, served>>

\* db.add(ShoppingItem(...)); db.commit(): the unique constraint on the name
\* raises IntegrityError when another request has inserted the row meanwhile
CommitInsert(c) ==
    /\ At(c, "insert")
    /\ IF RowOf(items, RaceItem) > 0
       THEN /\ Goto(c, "reselect")
            /\ UNCHANGED items
       ELSE /\ items' = Append(items, NewItem(NextId(items), RaceItem, req.client[c].quantity,
                                              RaceCategory, BestMatchLoop(RaceItem, 1, 0)))
            /\ Goto(c, "touch")
    /\ UNCHANGED <<history, resp, served>>

\* except IntegrityError: db.rollback(); existing = db.execute(select(...)).scalar_one()
Reselect(c) ==
    /\ At(c, "reselect")
    /\ req' = [req EXCEPT !.client[c].pc = "update",
                          !.client[c].seen = items[RowOf(items, RaceItem)].quantity]
    /\ UNCHANGED <<items, history, resp, served>>

\* _touch_history: row = db.execute(select(UserHistory)...).scalar_one_or_none()
TouchSelect(c) ==
    /\ At(c, "touch")
    /\ req' = [req EXCEPT !.client[c].pc = "touch_commit",
                          !.client[c].hseen =
                              IF \E r \in history : r.item_name = RaceItem
                              THEN (CHOOSE r \in history : r.item_name = RaceItem).purchase_count
                              ELSE 0]
    /\ UNCHANGED <<items, history, resp, served>>

\* _touch_history: db.add(row) or row.purchase_count += 1, then db.commit(); an
\* IntegrityError of the insert is not caught there and process_voice answers
\* it as INTERNAL_ERROR; otherwise the handler answers with the list
TouchCommit(c) ==
    /\ At(c, "touch_commit")
    /\ IF req.client[c].hseen = 0 /\ \E r \in history : r.item_name = RaceItem
       THEN /\ resp' = [resp EXCEPT ![c] = "INTERNAL_ERROR"]
            /\ UNCHANGED history
       ELSE /\ history' = {r \in history : r.item_name # RaceItem}
                              \cup {RaceHistory(req.client[c].hseen + 1)}
            /\ resp' = [resp EXCEPT ![c] = "ok"]
    /\ Goto(c, "done")
    /\ served' = served + 1
    /\ UNCHANGED items

NextRace ==
    \E c \in Clients :
        \/ Receive(c)
        \/ SelectExisting(c)
        \/ CommitUpdate(c)
        \/ CommitInsert(c)
        \/ Reselect(c)
        \/ TouchSelect(c)
        \/ TouchCommit(c)

SpecRace == InitRace /\ [][NextRace]_vars

RECURSIVE RequestedUpTo(_)
RequestedUpTo(c) == IF c = 0 THEN 0 ELSE Max(1, req.client[c].quantity) + RequestedUpTo(c - 1)

\* C29: when concurrent voice adds of one item have all been answered, the
\* list has exactly one row of that name, its quantity is the quantity before
\* the requests plus the sum of the requested quantities, and no request has
\* failed.
C29_ConcurrentAddsAllCounted ==
    (\A c \in Clients : At(c, "done")) =>
        /\ Cardinality({i \in 1..Len(items) : items[i].name = RaceItem}) = 1
        /\ QuantityOf(items, RaceItem) = req.before + RequestedUpTo(MaxClients)
        /\ \A c \in Clients : resp[c] = "ok"

====
